---- MODULE Spec2Model ----
(***************************************************************************)
(* A model of the Reversi game engine (class Reversi of reversi.py):       *)
(* construction, legality, move application with turn skipping,            *)
(* termination and outcome, load_game and simulate_moves.                  *)
(*                                                                         *)
(* Python lists are objects: the model keeps them in a heap (a sequence of *)
(* grids, a reference being an index), so that `self._grid = grid` is an   *)
(* alias and `deepcopy` is a fresh object.  A grid is a sequence of rows,  *)
(* a row a sequence of cells; positions are the source's 0-based (row,     *)
(* col) pairs.  An operation that can raise is modelled by a pair of       *)
(* operators: X_raises (it raises ValueError) and X (what it returns when  *)
(* it does not raise).                                                     *)
(***************************************************************************)
EXTENDS Integers, Sequences, FiniteSets, TLC

\* ---------------------------------------------------------------- bounds
MaxSide == 6
MaxPlayers == 5
MaxMoves == 2
MaxSimLen == 2
MaxChoice == 4

\* ------------------------------------------------------- values and grids
\* Python's None in a cell: a value that is no integer a caller passes as a
\* label (the labels are 1..players, the refused ones 0 and players + 1)
None == -1
\* Python's None as the result of _check_direction.
NoPos == <<>>

\* directions of legal_move and apply_move, in the source's order
directions ==
    << <<1, 0>>, <<-1, 0>>, <<0, 1>>, <<0, -1>>,
       <<1, 1>>, <<-1, 1>>, <<1, -1>>, <<-1, -1>> >>

\* self._grid[row][col]
At(G, pos) == G[pos[1] + 1][pos[2] + 1]

\* self._grid[row][col] = v
SetAt(G, pos, v) == [G EXCEPT ![pos[1] + 1][pos[2] + 1] = v]

Shift(pos, d) == <<pos[1] + d[1], pos[2] + d[2]>>

\* [[None] * side for _ in range(side)]   (range of a negative number is empty)
EmptyGrid(side) ==
    IF side <= 0 THEN <<>> ELSE [i \in 1..side |-> [j \in 1..side |-> None]]

\* the (i, j) pairs of `for i, row in enumerate(g): for j, _ in enumerate(row)`
Cells(G) == UNION {{<<i - 1, j - 1>> : j \in 1..Len(G[i])} : i \in 1..Len(G)}

\* the engine object: its fields; grid is a reference into the heap
NullEng == [side |-> 0, players |-> 0, othello |-> FALSE, grid |-> 0, turn |-> 0]

GridOf(h, e) == h[e.grid]

\* ------------------------------------------------------------ _in_bounds
in_bounds(e, pos) ==
    /\ 0 <= pos[1] /\ pos[1] < e.side
    /\ 0 <= pos[2] /\ pos[2] < e.side

\* -------------------------------------------------------- _check_direction
\* the while loop: chk holds a piece of another player
RECURSIVE check_walk(_, _, _, _, _)
check_walk(h, e, player, chk, direction) ==
    LET nxt == Shift(chk, direction) IN
    IF ~in_bounds(e, nxt) THEN NoPos
    ELSE IF At(GridOf(h, e), nxt) # None /\ At(GridOf(h, e), nxt) # player
         THEN check_walk(h, e, player, nxt, direction)
    ELSE IF At(GridOf(h, e), nxt) = player THEN nxt
    ELSE NoPos

\* a variant that also accepts a piece of the player right next to pos (a run
\* of zero pieces): C1 must tell it from check_direction
check_direction_zero(h, e, player, pos, direction) ==
    LET chk == Shift(pos, direction) IN
    IF ~in_bounds(e, chk) THEN NoPos
    ELSE IF At(GridOf(h, e), chk) = player THEN chk
    ELSE IF At(GridOf(h, e), chk) # None
         THEN check_walk(h, e, player, chk, direction)
    ELSE NoPos

check_direction(h, e, player, pos, direction) ==
    LET chk == Shift(pos, direction) IN
    IF ~in_bounds(e, chk) THEN NoPos
    ELSE IF At(GridOf(h, e), chk) # None /\ At(GridOf(h, e), chk) # player
         THEN check_walk(h, e, player, chk, direction)
    ELSE NoPos

\* ---------------------------------------------------------- _center_pieces
\* Python's // floors, as \div does
center_lo(e) == (e.side - e.players) \div 2

center_range(e) == center_lo(e)..(e.side - center_lo(e) - 1)

center_pieces(e) == center_range(e) \X center_range(e)

\* ---------------------------------------------------------------- piece_at
piece_at_raises(e, pos) == ~in_bounds(e, pos)

piece_at(h, e, pos) == At(GridOf(h, e), pos)

\* -------------------------------------------------------------- legal_move
\* a variant that also counts a piece of the player right next to pos: C15
\* must tell it from captures
captures_adjacent(h, e, pos) ==
    \E k \in 1..Len(directions) :
        \/ check_direction(h, e, e.turn, pos, directions[k]) # NoPos
        \/ /\ in_bounds(e, Shift(pos, directions[k]))
           /\ At(GridOf(h, e), Shift(pos, directions[k])) = e.turn

\* some direction has a bracketing piece of the player to move
captures(h, e, pos) ==
    \E k \in 1..Len(directions) :
        check_direction(h, e, e.turn, pos, directions[k]) # NoPos

\* not_filled: None in [self.piece_at(sq) for sq in center_sqs]
not_filled(h, e) == \E sq \in center_pieces(e) : piece_at(h, e, sq) = None

\* the row-major scan finds an occupied cell outside the center squares
outside_occupied(h, e) ==
    \E i \in 1..Len(GridOf(h, e)) : \E j \in 1..Len(GridOf(h, e)[i]) :
        <<i - 1, j - 1>> \notin center_pieces(e) /\ GridOf(h, e)[i][j] # None

\* legal_move raises for a position off the board, and (through piece_at in
\* the list comprehension over the center squares) for an empty position when
\* a center square lies off the board
legal_move_raises(h, e, pos) ==
    \/ ~in_bounds(e, pos)
    \/ /\ At(GridOf(h, e), pos) = None
       /\ \E i \in center_range(e) : piece_at_raises(e, <<i, i>>)

\* the first occupied cell outside the center squares, in row-major order
first_outside(h, e) ==
    LET found == {c \in Cells(GridOf(h, e)) :
                     c \notin center_pieces(e) /\ At(GridOf(h, e), c) # None}
    IN  CHOOSE c \in found :
            \A o \in found : c[1] < o[1] \/ (c[1] = o[1] /\ c[2] <= o[2])

\* a variant that, in the fallback, tests the capture at the first occupied
\* outside cell and not at pos: C14 must tell it from legal_rule
legal_rule_forced(h, e, unfilled, outside, pos) ==
    IF At(GridOf(h, e), pos) # None THEN FALSE
    ELSE IF unfilled
         THEN IF outside
              THEN captures(h, e, first_outside(h, e))
              ELSE pos \in center_pieces(e) /\ At(GridOf(h, e), pos) = None
    ELSE captures(h, e, pos)

\* a variant that does not ask whether pos is empty: C29 must tell it from
\* legal_rule
legal_rule_occupied(h, e, unfilled, outside, pos) ==
    IF unfilled
    THEN IF outside
         THEN captures(h, e, pos)
         ELSE pos \in center_pieces(e) /\ At(GridOf(h, e), pos) = None
    ELSE captures(h, e, pos)

\* a variant that, while the center squares are not full, takes a capture
\* from pos as well as an empty center square: C32 must tell it from
\* legal_rule
legal_rule_capture_too(h, e, unfilled, outside, pos) ==
    IF At(GridOf(h, e), pos) # None THEN FALSE
    ELSE IF unfilled
         THEN \/ captures(h, e, pos)
              \/ ~outside /\ pos \in center_pieces(e) /\ At(GridOf(h, e), pos) = None
    ELSE captures(h, e, pos)

\* a variant that, while nothing lies outside the center squares, lets the
\* player take any empty cell: C31 must tell it from legal_rule
legal_rule_open(h, e, unfilled, outside, pos) ==
    IF At(GridOf(h, e), pos) # None THEN FALSE
    ELSE IF unfilled
         THEN IF outside
              THEN captures(h, e, pos)
              ELSE At(GridOf(h, e), pos) = None
    ELSE captures(h, e, pos)

\* the body of legal_move, given what its two scans of the grid found
legal_rule(h, e, unfilled, outside, pos) ==
    IF At(GridOf(h, e), pos) # None THEN FALSE
    ELSE IF unfilled
         THEN IF outside
              THEN captures(h, e, pos)
              ELSE pos \in center_pieces(e) /\ At(GridOf(h, e), pos) = None
    ELSE captures(h, e, pos)

legal_move(h, e, pos) ==
    legal_rule(h, e, not_filled(h, e), outside_occupied(h, e), pos)

\* --------------------------------------------------------- available_moves
available_moves_raises(h, e) ==
    \E c \in Cells(GridOf(h, e)) : legal_move_raises(h, e, c)

\* legal_move at every cell; the grid does not change during the scan, so the
\* two scans of legal_move are made once
available_moves(h, e) ==
    LET unfilled == not_filled(h, e)
        outside == outside_occupied(h, e)
    IN  {c \in Cells(GridOf(h, e)) : legal_rule(h, e, unfilled, outside, c)}

\* list(moves): the elements of the set, each once, in the order the set
\* iterates them
RECURSIVE list_of(_)
list_of(S) ==
    IF S = {} THEN <<>>
    ELSE LET x == CHOOSE x \in S : TRUE IN <<x>> \o list_of(S \ {x})

available_moves_list(h, e) == list_of(available_moves(h, e))

\* -------------------------------------------------------------------- done
\* the loop sets self._turn to each player in turn; it raises at the first
\* player when available_moves raises
done_raises(h, e) == e.players >= 1 /\ available_moves_raises(h, e)

\* a variant that asks the player to move only: C4 must tell it from done
done_current(h, e) == available_moves(h, e) = {}

done(h, e) ==
    \A player \in 1..e.players :
        available_moves(h, [e EXCEPT !.turn = player]) = {}

\* ----------------------------------------------------------------- outcome
count_pieces(G, player) ==
    Cardinality({c \in Cells(G) : At(G, c) = player})

\* a variant that lists the labels of the grid in ascending order: C18 must
\* tell it from first_seen
labels_ascending(G, i, j, acc) ==
    LET found == {At(G, c) : c \in Cells(G)} \ {None}
        upto(n) == {l \in found : l <= n}
    IN  [k \in 1..Cardinality(found) |->
            CHOOSE l \in found : Cardinality(upto(l)) = k]

\* the keys of player_pieces in insertion order: the labels in the order of
\* their first appearance in the row-major scan
RECURSIVE first_seen(_, _, _, _)
first_seen(G, i, j, acc) ==
    IF i > Len(G) THEN acc
    ELSE IF j > Len(G[i]) THEN first_seen(G, i + 1, 1, acc)
    ELSE IF G[i][j] # None /\ \A n \in 1..Len(acc) : acc[n] # G[i][j]
         THEN first_seen(G, i, j + 1, Append(acc, G[i][j]))
         ELSE first_seen(G, i, j + 1, acc)

\* a variant that keeps the count of the last player found, without
\* comparing: C17 must tell it from maximum_of
maximum_last(G, keys, k) ==
    IF keys = <<>> THEN 0 ELSE count_pieces(G, keys[Len(keys)])

RECURSIVE maximum_of(_, _, _)
maximum_of(G, keys, k) ==
    IF k > Len(keys) THEN 0
    ELSE LET rest == maximum_of(G, keys, k + 1) IN
         IF count_pieces(G, keys[k]) > rest THEN count_pieces(G, keys[k])
         ELSE rest

outcome_raises(h, e) == done_raises(h, e)

\* a variant that names one winner only: C5 must tell it from outcome
outcome_single(h, e) ==
    IF ~done(h, e) THEN <<>>
    ELSE LET G == GridOf(h, e)
             keys == first_seen(G, 1, 1, <<>>)
             maximum_pieces == maximum_of(G, keys, 1)
         IN  SubSeq(SelectSeq(keys, LAMBDA p : count_pieces(G, p) = maximum_pieces),
                    1, 1)

outcome(h, e) ==
    IF ~done(h, e) THEN <<>>
    ELSE LET G == GridOf(h, e)
             keys == first_seen(G, 1, 1, <<>>)
             maximum_pieces == maximum_of(G, keys, 1)
         IN  SelectSeq(keys, LAMBDA p : count_pieces(G, p) = maximum_pieces)

\* -------------------------------------------------------------- apply_move
\* a variant that leaves the turn at 0 when it wraps: C22 must tell it from
\* next_turn
next_turn_wrapping(e) == (e.turn + 1) % (e.players + 1)

\* self._turn = (self._turn + 1) % (self._players + 1), 0 becoming 1
next_turn(e) ==
    LET n == (e.turn + 1) % (e.players + 1) IN IF n = 0 THEN n + 1 ELSE n

\* a variant that flips the adjacent piece only: C2 must tell it from retrace
retrace_adjacent(G, turn, chk, direction) == SetAt(G, chk, turn)

\* a variant that takes the captured pieces off the board: C30 must tell it
\* from retrace
RECURSIVE retrace_removing(_, _, _, _)
retrace_removing(G, turn, chk, direction) ==
    IF At(G, chk) # turn
    THEN retrace_removing(SetAt(G, chk, None), turn, Shift(chk, direction), direction)
    ELSE G

\* the walk of one retraced direction: overwrite until a cell of the mover
RECURSIVE retrace(_, _, _, _)
retrace(G, turn, chk, direction) ==
    IF At(G, chk) # turn
    THEN retrace(SetAt(G, chk, turn), turn, Shift(chk, direction), direction)
    ELSE G

RECURSIVE retrace_all(_, _, _, _, _)
retrace_all(G, turn, pos, retrace_dir, k) ==
    IF k > Len(retrace_dir) THEN G
    ELSE retrace_all(retrace(G, turn, Shift(pos, retrace_dir[k]), retrace_dir[k]),
                     turn, pos, retrace_dir, k + 1)

\* a variant that flips in the center block too: C16 must tell it from place
place_flipping(h, e, pos) ==
    LET placed == [h EXCEPT ![e.grid] = SetAt(h[e.grid], pos, e.turn)]
        retrace_dir ==
            SelectSeq(directions,
                      LAMBDA d : check_direction(placed, e, e.turn, pos, d) # NoPos)
    IN  [placed EXCEPT ![e.grid] =
             retrace_all(placed[e.grid], e.turn, pos, retrace_dir, 1)]

\* the grid after the placement and the flips
place(h, e, pos) ==
    LET placed == [h EXCEPT ![e.grid] = SetAt(h[e.grid], pos, e.turn)] IN
    IF ~e.othello /\ pos \in center_pieces(e) THEN placed
    ELSE LET retrace_dir ==
                 SelectSeq(directions,
                           LAMBDA d : check_direction(placed, e, e.turn, pos, d) # NoPos)
         IN  [placed EXCEPT ![e.grid] =
                  retrace_all(placed[e.grid], e.turn, pos, retrace_dir, 1)]

\* a variant that never skips a player: C3 must tell it from skip_loop
skip_never(h, e) ==
    [eng |-> e,
     status |-> IF available_moves_raises(h, e) THEN "ValueError" ELSE "ok"]

\* while len(self.available_moves) == 0 and not self.done: advance the turn.
\* available_moves is evaluated first, so it is the call that raises.
RECURSIVE skip_loop(_, _)
skip_loop(h, e) ==
    IF available_moves_raises(h, e) THEN [eng |-> e, status |-> "ValueError"]
    ELSE IF available_moves(h, e) = {} /\ ~done(h, e)
         THEN skip_loop(h, [e EXCEPT !.turn = next_turn(e)])
    ELSE [eng |-> e, status |-> "ok"]

\* a variant that passes the turn before it looks at the position: C20 must
\* tell it from apply_move
apply_move_late_check(h, e, pos) ==
    IF ~in_bounds(e, pos)
    THEN [heap |-> h, eng |-> [e EXCEPT !.turn = next_turn(e)], status |-> "ValueError"]
    ELSE LET h1 == place(h, e, pos)
             r == skip_loop(h1, [e EXCEPT !.turn = next_turn(e)])
         IN  [heap |-> h1, eng |-> r.eng, status |-> r.status]

\* a variant that passes the turn to the next player and never skips: C28
\* must tell it from apply_move
apply_move_no_skip(h, e, pos) ==
    IF ~in_bounds(e, pos) THEN [heap |-> h, eng |-> e, status |-> "ValueError"]
    ELSE [heap |-> place(h, e, pos), eng |-> [e EXCEPT !.turn = next_turn(e)],
          status |-> "ok"]

\* the heap and the engine after the call, and whether it raised
apply_move(h, e, pos) ==
    IF ~in_bounds(e, pos) THEN [heap |-> h, eng |-> e, status |-> "ValueError"]
    ELSE LET h1 == place(h, e, pos)
             r == skip_loop(h1, [e EXCEPT !.turn = next_turn(e)])
         IN  [heap |-> h1, eng |-> r.eng, status |-> r.status]

\* --------------------------------------------------------------- load_game
load_game_raises(h, e, turn, grid) ==
    \/ turn <= 0 \/ turn > e.players
    \/ Len(h[grid]) # Len(GridOf(h, e))
    \/ \E c \in Cells(h[grid]) :
           At(h[grid], c) # None
           /\ (At(h[grid], c) <= 0 \/ At(h[grid], c) > e.players)

\* a variant that stores the turn before it validates: C8 must tell it from
\* load_game
load_game_turn_first(h, e, turn, grid) ==
    IF load_game_raises(h, e, turn, grid) THEN [e EXCEPT !.turn = turn]
    ELSE [e EXCEPT !.turn = turn, !.grid = grid]

\* a variant that skips the players without a move, as apply_move does: C9
\* must tell it from load_game
load_game_skipping(h, e, turn, grid) ==
    IF load_game_raises(h, e, turn, grid) THEN e
    ELSE IF available_moves_raises(h, [e EXCEPT !.turn = turn, !.grid = grid])
         THEN [e EXCEPT !.turn = turn, !.grid = grid]
    ELSE skip_loop(h, [e EXCEPT !.turn = turn, !.grid = grid]).eng

\* self._turn = turn; self._grid = grid: the engine now refers to the caller's list
load_game(h, e, turn, grid) ==
    IF load_game_raises(h, e, turn, grid) THEN e
    ELSE [e EXCEPT !.turn = turn, !.grid = grid]

\* ------------------------------------------------------------ construction
\* a variant without the check of the number of Othello players: C10 must
\* tell it from Reversi_raises
Reversi_raises_any_players(side, players, othello) ==
    \/ players % 2 # Len(EmptyGrid(side)) % 2
    \/ Len(EmptyGrid(side)) < 3

\* the checks of __init__, made on len(self._grid), which is side or 0
Reversi_raises(side, players, othello) ==
    \/ players % 2 # Len(EmptyGrid(side)) % 2
    \/ othello /\ players # 2
    \/ Len(EmptyGrid(side)) < 3

\* a variant that leaves the top left cell of the four unseeded: C33 must
\* tell it from seeded
seeded_three(side) ==
    LET bot_right_center == side \div 2 IN
    SetAt(SetAt(SetAt(EmptyGrid(side),
        <<bot_right_center, bot_right_center>>, 2),
        <<bot_right_center - 1, bot_right_center>>, 1),
        <<bot_right_center, bot_right_center - 1>>, 1)

\* a variant that seeds the two labels the other way round: C12 must tell it
\* from seeded
seeded_swapped(side) ==
    LET bot_right_center == side \div 2 IN
    SetAt(SetAt(SetAt(SetAt(EmptyGrid(side),
        <<bot_right_center, bot_right_center>>, 1),
        <<bot_right_center - 1, bot_right_center>>, 2),
        <<bot_right_center - 1, bot_right_center - 1>>, 1),
        <<bot_right_center, bot_right_center - 1>>, 2)

seeded(side) ==
    LET bot_right_center == side \div 2 IN
    SetAt(SetAt(SetAt(SetAt(EmptyGrid(side),
        <<bot_right_center, bot_right_center>>, 2),
        <<bot_right_center - 1, bot_right_center>>, 1),
        <<bot_right_center - 1, bot_right_center - 1>>, 2),
        <<bot_right_center, bot_right_center - 1>>, 1)

\* a variant that gives the first turn to player 2: C11 must tell it from
\* Reversi
Reversi_second(h, side, players, othello) ==
    [heap |-> Append(h, IF othello THEN seeded(side) ELSE EmptyGrid(side)),
     eng  |-> [side |-> side, players |-> players, othello |-> othello,
               grid |-> Len(h) + 1, turn |-> 2]]

\* a new engine, its grid a new object of the heap
Reversi(h, side, players, othello) ==
    [heap |-> Append(h, IF othello THEN seeded(side) ELSE EmptyGrid(side)),
     eng  |-> [side |-> side, players |-> players, othello |-> othello,
               grid |-> Len(h) + 1, turn |-> 1]]

\* -------------------------------------------------------------------- grid
\* a variant that hands out the engine's own list: C6 must tell it from
\* grid_property
grid_alias(h, e) == [heap |-> h, ref |-> e.grid]

\* the grid property: deepcopy(self._grid), a new object
grid_property(h, e) == [heap |-> Append(h, h[e.grid]), ref |-> Len(h) + 1]

\* ---------------------------------------------------------- simulate_moves
\* for move in moves: the bounds check on the receiver, the occupied check
\* and apply_move on the simulated engine
RECURSIVE simulate_loop(_, _, _, _, _)
simulate_loop(h, e, sim_reversi, moves, k) ==
    IF k > Len(moves) THEN [heap |-> h, eng |-> sim_reversi, status |-> "ok"]
    ELSE IF ~in_bounds(e, moves[k])
         THEN [heap |-> h, eng |-> sim_reversi, status |-> "ValueError"]
    ELSE IF At(GridOf(h, sim_reversi), moves[k]) # None
         THEN [heap |-> h, eng |-> sim_reversi, status |-> "ValueError"]
    ELSE LET r == apply_move(h, sim_reversi, moves[k]) IN
         IF r.status # "ok" THEN r
         ELSE simulate_loop(r.heap, e, r.eng, moves, k + 1)

\* a variant that starts the simulated engine at player 1: C7 must tell it
\* from simulate_moves
simulate_from_first(h, e, moves) ==
    LET made == Reversi(h, e.side, e.players, e.othello)
        copy == grid_property(made.heap, e)
    IN  simulate_loop(copy.heap, e, load_game(copy.heap, made.eng, 1, copy.ref),
                      moves, 1)

\* a variant that loads the simulated engine with the receiver's own list:
\* C24 must tell it from simulate_moves
simulate_moves_shared(h, e, moves) ==
    LET made == Reversi(h, e.side, e.players, e.othello)
    IN  IF load_game_raises(made.heap, made.eng, e.turn, e.grid)
        THEN [heap |-> made.heap, eng |-> made.eng, status |-> "ValueError"]
        ELSE simulate_loop(made.heap,
                           e, load_game(made.heap, made.eng, e.turn, e.grid),
                           moves, 1)

simulate_moves(h, e, moves) ==
    LET made == Reversi(h, e.side, e.players, e.othello)
        copy == grid_property(made.heap, e)
    IN  IF load_game_raises(copy.heap, made.eng, e.turn, copy.ref)
        THEN [heap |-> copy.heap, eng |-> made.eng, status |-> "ValueError"]
        ELSE simulate_loop(copy.heap,
                           e, load_game(copy.heap, made.eng, e.turn, copy.ref),
                           moves, 1)

\* ------------------------------------------------------------------- heap
\* Objects no variable refers to are dropped and the others renumbered in the
\* order of the roots (0 is no reference): addresses are not observable.
RECURSIVE live_refs(_, _, _)
live_refs(roots, k, acc) ==
    IF k > Len(roots) THEN acc
    ELSE IF roots[k] = 0 \/ \E n \in 1..Len(acc) : acc[n] = roots[k]
         THEN live_refs(roots, k + 1, acc)
    ELSE live_refs(roots, k + 1, Append(acc, roots[k]))

renumber(live, ref) ==
    IF ref = 0 THEN 0 ELSE CHOOSE n \in 1..Len(live) : live[n] = ref

collect(h, roots) ==
    LET live == live_refs(roots, 1, <<>>) IN [n \in 1..Len(live) |-> h[live[n]]]

moved(e, roots) ==
    [e EXCEPT !.grid = renumber(live_refs(roots, 1, <<>>), e.grid)]

\* ------------------------------------------------------------------ inputs
N == None

\* test_turn_skip_1: after (2, 0) player 2 cannot answer
TurnSkip4 ==
    << <<1, 1, 1, N>>, <<1, 1, 1, N>>, <<N, 1, 2, N>>, <<N, N, N, N>> >>

\* test_not_full_8 on a 4 x 4 board: (0, 0) ends the game with empty cells
NotFull4 ==
    << <<N, 2, 2, 1>>, <<2, 2, N, N>>, <<2, N, 2, N>>, <<1, N, N, 1>> >>

\* test_absolute_tie_not_full_9 on a 4 x 4 board: (0, 3) ends the game in a tie
NearTie4 ==
    << <<1, 2, 2, N>>, <<N, N, N, N>>, <<N, N, N, N>>, <<2, 2, 2, 2>> >>

\* four players, players 2 and 3 without a piece (the example of apply_move's
\* documentation): after (0, 0) the turn passes from 1 to 4
Skip6 ==
    << <<N, N, N, N, N, N>>, <<N, 4, 1, 1, 1, N>>, <<N, 1, 1, 1, 1, N>>,
       <<N, 1, 1, 1, 1, N>>, <<N, 1, 1, 1, 4, N>>, <<N, N, N, N, N, N>> >>

\* the filled center of test_non_othello_5_1 and test_non_othello_9l_2, for
\* any side and number of players: each center row holds the labels in order
StripedCenter(e) ==
    [i \in 1..e.side |-> [j \in 1..e.side |->
        IF <<i - 1, j - 1>> \in center_pieces(e) THEN j - center_lo(e) ELSE None]]

\* the same position seen from the other side of the board: (3, 3) ends the
\* game in a tie, and the scan meets player 2 first
NearTieTurned4 ==
    << <<2, 2, 2, 2>>, <<N, N, N, N>>, <<N, N, N, N>>, <<1, 2, 2, N>> >>

HandGrids == {TurnSkip4, NotFull4, NearTie4, NearTieTurned4, Skip6}

\* grids a caller may pass that load_game accepts when the labels fit
GoodGrids(h, e) ==
    {G \in HandGrids : Len(G) = e.side} \cup {StripedCenter(e)}

\* grids load_game must refuse: a row too many, a row too few, a label above
\* players, the label 0
BadGrids(e) ==
    { Append(StripedCenter(e), [j \in 1..e.side |-> None]),
      SubSeq(StripedCenter(e), 1, e.side - 1),
      SetAt(StripedCenter(e), <<0, 0>>, e.players + 1),
      SetAt(StripedCenter(e), <<e.side - 1, e.side - 1>>, 0) }

LoadInputs(h, e) ==
    {[turn |-> t, grid |-> G] : t \in 1..e.players, G \in GoodGrids(h, e)}
    \cup {[turn |-> t, grid |-> StripedCenter(e)] : t \in {0, e.players + 1}}
    \cup {[turn |-> 1, grid |-> G] : G \in BadGrids(e)}

\* positions a caller may pass besides the legal moves: a cell of the left
\* edge (the move of test_turn_skip_1), a middle cell of the board, and two
\* positions off the board
Probes(e) ==
    {<<e.side \div 2, 0>>, <<e.side \div 2, e.side \div 2>>,
     <<-1, 0>>, <<e.side - 1, e.side>>}

\* the legal moves a caller picks from: the first MaxChoice positions, in
\* row-major order, of available_moves (none when it raises)
Offered(h, e) ==
    IF available_moves_raises(h, e) THEN {}
    ELSE LET all == available_moves(h, e)
             rank(p) == p[1] * e.side + p[2]
         IN  {p \in all : Cardinality({q \in all : rank(q) < rank(p)}) < MaxChoice}

is_legal(h, e, pos) == ~legal_move_raises(h, e, pos) /\ legal_move(h, e, pos)

\* lists of at most n positions: legal moves, ended or not by a probe
RECURSIVE MoveLists(_, _, _)
MoveLists(h, e, n) ==
    IF n = 0 THEN {<<>>}
    ELSE {<<>>} \cup {<<p>> : p \in Probes(e)}
         \cup UNION {
           {<<p>> \o rest :
               rest \in LET r == apply_move(h, e, p) IN MoveLists(r.heap, r.eng, n - 1)}
           : p \in Offered(h, e)}

\* ------------------------------------------------------------------- state
VARIABLES
    phase,   \* "new" before the constructor ran, then "live" or "rejected"
    eng,     \* the engine object
    heap,    \* the grids, by reference
    sim,     \* the engine the last simulate_moves returned (NullEng: none)
    last,    \* the call that just returned: its name, its arguments and
             \* whether it raised; NoCall once the caller has gone on
    pre,     \* the receiver's grid and turn when that call was made
    nmoves,  \* the number of moves applied
    caller   \* what the caller keeps besides the engine: a list (the grid it
             \* read, or one it built), how it got it, whether it passed it
             \* to load_game, and how it got its second engine

vars == <<phase, eng, heap, sim, last, pre, nmoves, caller>>

\* a caller that keeps nothing
NoList == [list |-> 0, from |-> "none", loaded |-> FALSE, other |-> "none"]

NoCall ==
    [op |-> "none", status |-> "ok", side |-> 0, players |-> 0, othello |-> FALSE,
     pos |-> NoPos, turn |-> 0, grid |-> <<>>, moves |-> <<>>]

NoPre == [grid |-> <<>>, turn |-> 0]

\* what a caller reads before a call: the grid (by value) and the turn
Snapshot(h, e) == [grid |-> GridOf(h, e), turn |-> e.turn]

Init ==
    /\ phase = "new"
    /\ eng = NullEng
    /\ heap = <<>>
    /\ sim = NullEng
    /\ last = NoCall
    /\ pre = NoPre
    /\ nmoves = 0
    /\ caller = NoList

\* Reversi(side, players, othello)
Construct(side, players, othello) ==
    /\ phase = "new"
    /\ IF Reversi_raises(side, players, othello)
       THEN /\ phase' = "rejected"
            /\ UNCHANGED <<eng, heap>>
            /\ last' = [NoCall EXCEPT !.op = "Reversi", !.status = "ValueError",
                            !.side = side, !.players = players, !.othello = othello]
       ELSE LET made == Reversi(heap, side, players, othello) IN
            /\ phase' = "live"
            /\ eng' = made.eng
            /\ heap' = made.heap
            /\ last' = [NoCall EXCEPT !.op = "Reversi",
                            !.side = side, !.players = players, !.othello = othello]
    /\ UNCHANGED <<sim, pre, nmoves, caller>>

\* the state after a call that returned r = [heap, eng, status]
Returned(r, call) ==
    /\ eng' = moved(r.eng, <<r.eng.grid>>)
    /\ heap' = collect(r.heap, <<r.eng.grid>>)
    /\ last' = [call EXCEPT !.status = r.status]
    /\ pre' = Snapshot(heap, eng)
    /\ sim' = NullEng

\* apply_move(pos); a position that is no legal move ends the exploration of
\* further moves
ApplyMove(pos) ==
    /\ phase = "live" /\ last = NoCall
    /\ nmoves < MaxMoves
    /\ Returned(apply_move(heap, eng, pos),
                [NoCall EXCEPT !.op = "apply_move", !.pos = pos])
    /\ nmoves' = IF is_legal(heap, eng, pos) THEN nmoves + 1 ELSE MaxMoves
    /\ UNCHANGED <<phase, caller>>

\* the caller's call load_game(turn, grid), grid being the reference of a list
\* the caller has just built
load_game_call(h, e, turn, grid) ==
    [heap |-> h, eng |-> load_game(h, e, turn, grid),
     status |-> IF load_game_raises(h, e, turn, grid) THEN "ValueError" ELSE "ok"]

LoadGame(turn, grid) ==
    /\ phase = "live" /\ last = NoCall
    /\ Returned(load_game_call(Append(heap, grid), eng, turn, Len(heap) + 1),
                [NoCall EXCEPT !.op = "load_game", !.turn = turn, !.grid = grid])
    /\ UNCHANGED <<phase, nmoves, caller>>

\* the state after simulate_moves returned r; the caller keeps the engine it
\* returns
Simulated(r, call) ==
    /\ eng' = moved(eng, <<eng.grid>>)
    /\ sim' = IF r.status = "ok" THEN moved(r.eng, <<eng.grid, r.eng.grid>>)
              ELSE NullEng
    /\ heap' = collect(r.heap, <<eng.grid, IF r.status = "ok" THEN r.eng.grid ELSE 0>>)
    /\ last' = [call EXCEPT !.status = r.status]
    /\ pre' = Snapshot(heap, eng)

SimulateMoves(moves) ==
    /\ phase = "live" /\ last = NoCall
    /\ nmoves + Len(moves) <= MaxMoves
    /\ Simulated(simulate_moves(heap, eng, moves),
                 [NoCall EXCEPT !.op = "simulate_moves", !.moves = moves])
    /\ UNCHANGED <<phase, nmoves, caller>>

\* the caller has looked at the result of the call (and at the simulated
\* engine) and goes on to its next call
Continue ==
    /\ phase = "live" /\ last # NoCall
    /\ last' = NoCall
    /\ pre' = NoPre
    /\ sim' = NullEng
    /\ heap' = collect(heap, <<eng.grid>>)
    /\ UNCHANGED <<phase, eng, nmoves, caller>>

Min(a, b) == IF a < b THEN a ELSE b

Next ==
    \/ \E side \in -1..MaxSide, players \in 1..MaxPlayers, othello \in BOOLEAN :
           Construct(side, players, othello)
    \/ /\ phase = "live" /\ last = NoCall /\ nmoves < MaxMoves
       /\ \E pos \in Offered(heap, eng) \cup Probes(eng) : ApplyMove(pos)
    \/ /\ phase = "live" /\ last = NoCall
       /\ \E inp \in LoadInputs(heap, eng) : LoadGame(inp.turn, inp.grid)
    \/ /\ phase = "live" /\ last = NoCall
       /\ \E moves \in MoveLists(heap, eng, Min(MaxSimLen, MaxMoves - nmoves)) :
              SimulateMoves(moves)
    \/ Continue

Spec == Init /\ [][Next]_vars

\* ------------------------------------------- a caller that keeps its lists
\* The caller of gui.py keeps the list the grid property returned, writes to
\* it and passes it to load_game; a caller may as well build the list, load
\* a second engine with it, and keep the engine simulate_moves returned.

\* the engines this caller makes
CallerEngines ==
    {<<3, 3, FALSE>>, <<4, 2, TRUE>>, <<4, 2, FALSE>>, <<4, 4, FALSE>>}

\* a list of side rows, each a cell longer than the side
LongRows(e) == [i \in 1..e.side |-> Append(StripedCenter(e)[i], None)]

\* the lists the caller builds: the positions of the tests, rows that are
\* too long, and a label above players
BuiltLists(h, e) ==
    GoodGrids(h, e)
    \cup {LongRows(e), SetAt(StripedCenter(e), <<0, 0>>, e.players + 1)}

\* the positions this caller plays: the first legal move in row-major order
\* and the cell in the middle of the board, legal or not
Tried(h, e) ==
    LET all == Offered(h, e)
        rank(p) == p[1] * e.side + p[2]
    IN  {p \in all : \A q \in all : rank(p) <= rank(q)}
        \cup {<<e.side \div 2, e.side \div 2>>}

\* what the caller can read before a call: the receiver's grid and turn, its
\* own list, and the grid and turn of its second engine
Observed(h, e, c, s) ==
    [grid |-> GridOf(h, e), turn |-> e.turn,
     list |-> IF c.list = 0 THEN <<>> ELSE h[c.list],
     simgrid |-> IF s = NullEng THEN <<>> ELSE GridOf(h, s),
     simturn |-> s.turn]

\* the state after a call: the receiver e, the caller's list and its second
\* engine s stay reachable
Kept(h, e, c, s, call) ==
    LET roots == <<e.grid, c.list, s.grid>> IN
    /\ eng' = moved(e, roots)
    /\ caller' = [c EXCEPT !.list = renumber(live_refs(roots, 1, <<>>), c.list)]
    /\ sim' = moved(s, roots)
    /\ heap' = collect(h, roots)
    /\ last' = call
    /\ pre' = Observed(heap, eng, caller, sim)

OnReceiver(r, call) ==
    Kept(r.heap, r.eng, caller, sim, [call EXCEPT !.status = r.status])

OnOther(r, c, call) ==
    Kept(r.heap, eng, c, r.eng, [call EXCEPT !.status = r.status])

\* self.grid = self.reversi.grid   (gui.py)
TakeGrid ==
    /\ phase = "live" /\ last = NoCall /\ caller.list = 0
    /\ LET copy == grid_property(heap, eng) IN
       Kept(copy.heap, eng, [caller EXCEPT !.list = copy.ref, !.from = "grid"], sim,
            [NoCall EXCEPT !.op = "grid"])
    /\ UNCHANGED <<phase, nmoves>>

\* the caller builds a list of rows
MakeList(G) ==
    /\ phase = "live" /\ last = NoCall /\ caller.list = 0
    /\ Kept(Append(heap, G), eng,
            [caller EXCEPT !.list = Len(heap) + 1, !.from = "list"], sim,
            [NoCall EXCEPT !.op = "list", !.grid = G])
    /\ UNCHANGED <<phase, nmoves>>

\* self.grid[r_val][c_val] = ...   (gui.py): a write to the caller's list,
\* counted with the moves it goes with
CallerWrites(pos, v) ==
    /\ phase = "live" /\ last = NoCall /\ caller.list # 0 /\ nmoves < MaxMoves
    /\ Kept([heap EXCEPT ![caller.list] = SetAt(@, pos, v)], eng, caller, sim,
            [NoCall EXCEPT !.op = "write", !.pos = pos])
    /\ nmoves' = nmoves + 1
    /\ UNCHANGED phase

\* self.reversi.load_game(turn, self.grid)   (gui.py): the list the caller
\* keeps is passed to load_game, until load_game has taken it
LoadHeld(turn) ==
    /\ phase = "live" /\ last = NoCall /\ caller.list # 0 /\ ~caller.loaded
    /\ LET ok == ~load_game_raises(heap, eng, turn, caller.list) IN
       Kept(heap, load_game(heap, eng, turn, caller.list),
            [caller EXCEPT !.loaded = @ \/ ok], sim,
            [NoCall EXCEPT !.op = "load_game", !.turn = turn,
                           !.grid = heap[caller.list],
                           !.status = IF ok THEN "ok" ELSE "ValueError"])
    /\ UNCHANGED <<phase, nmoves>>

\* a second engine of the same kind, loaded with the caller's list
LoadOther(turn) ==
    /\ phase = "live" /\ last = NoCall /\ caller.list # 0 /\ sim = NullEng
    /\ LET made == Reversi(heap, eng.side, eng.players, eng.othello) IN
       OnOther(load_game_call(made.heap, made.eng, turn, caller.list),
               [caller EXCEPT !.other = "load_game"],
               [NoCall EXCEPT !.op = "other.load_game", !.turn = turn])
    /\ UNCHANGED <<phase, nmoves>>

\* sim = self._game.simulate_moves([move])   (bot.py): the caller keeps the
\* engine it gets
Simulates(moves) ==
    /\ phase = "live" /\ last = NoCall /\ sim = NullEng
    /\ LET r == simulate_moves(heap, eng, moves) IN
       OnOther(IF r.status = "ok" THEN r ELSE [r EXCEPT !.eng = NullEng],
               IF r.status = "ok" THEN [caller EXCEPT !.other = "simulate_moves"]
               ELSE caller,
               [NoCall EXCEPT !.op = "simulate_moves", !.moves = moves])
    /\ UNCHANGED <<phase, nmoves>>

ReceiverApplies(pos) ==
    /\ phase = "live" /\ last = NoCall /\ nmoves < MaxMoves
    /\ OnReceiver(apply_move(heap, eng, pos),
                  [NoCall EXCEPT !.op = "apply_move", !.pos = pos])
    /\ nmoves' = nmoves + 1
    /\ UNCHANGED phase

\* a move on the caller's second engine
OtherApplies(pos) ==
    /\ phase = "live" /\ last = NoCall /\ sim # NullEng /\ nmoves < MaxMoves
    /\ OnOther(apply_move(heap, sim, pos), caller,
               [NoCall EXCEPT !.op = "other.apply_move", !.pos = pos])
    /\ nmoves' = nmoves + 1
    /\ UNCHANGED phase

Resumes ==
    /\ phase = "live" /\ last # NoCall
    /\ last' = NoCall
    /\ pre' = NoPre
    /\ UNCHANGED <<phase, eng, heap, sim, nmoves, caller>>

CallerNext ==
    \/ \E c \in CallerEngines : Construct(c[1], c[2], c[3])
    \/ TakeGrid
    \/ /\ phase = "live"
       /\ \E G \in BuiltLists(heap, eng) : MakeList(G)
    \/ /\ phase = "live" /\ caller.list # 0 /\ nmoves < MaxMoves
       /\ \E pos \in Tried(heap, eng), v \in {eng.turn, None} : CallerWrites(pos, v)
    \/ /\ phase = "live"
       /\ \E turn \in {0, 1, eng.players} : LoadHeld(turn)
    \/ /\ phase = "live"
       /\ \E turn \in {1, eng.players} : LoadOther(turn)
    \/ /\ phase = "live" /\ last = NoCall /\ sim = NullEng
       /\ \E moves \in {<<>>} \cup {<<p>> : p \in Tried(heap, eng)} : Simulates(moves)
    \/ /\ phase = "live" /\ last = NoCall /\ nmoves < MaxMoves
       /\ \E pos \in Tried(heap, eng) : ReceiverApplies(pos)
    \/ /\ phase = "live" /\ last = NoCall /\ sim # NullEng /\ nmoves < MaxMoves
       /\ \E pos \in Tried(heap, sim) : OtherApplies(pos)
    \/ Resumes

SpecCaller == Init /\ [][CallerNext]_vars

\* ------------------------------------------------------------- the queries
\* The properties and query methods as calls on the object: what they leave
\* in the engine, whether they raise, and the value they return.

\* done: self._turn is set to each player in turn and restored after the
\* loop; available_moves is asked as long as no player had a move
RECURSIVE done_loop(_, _, _, _, _)
done_loop(h, e, current_player, player, no_moves) ==
    IF player > e.players
    THEN [eng |-> [e EXCEPT !.turn = current_player], status |-> "ok",
          value |-> no_moves]
    ELSE LET asked == [e EXCEPT !.turn = player] IN
         IF no_moves /\ available_moves_raises(h, asked)
         THEN [eng |-> asked, status |-> "ValueError", value |-> FALSE]
         ELSE done_loop(h, asked, current_player, player + 1,
                        no_moves /\ available_moves(h, asked) = {})

done_call(h, e) == done_loop(h, e, e.turn, 1, TRUE)

\* outcome asks done first
outcome_call(h, e) ==
    LET asked == done_call(h, e) IN
    IF asked.status # "ok" THEN [asked EXCEPT !.value = <<>>]
    ELSE [asked EXCEPT !.value = outcome(h, e)]

answer(e, raises, value) ==
    [eng |-> e, status |-> IF raises THEN "ValueError" ELSE "ok", value |-> value]

QueryNames ==
    {"size", "num_players", "grid", "turn", "available_moves", "done",
     "outcome", "piece_at", "legal_move"}

\* the call of the query q (with its argument pos, for piece_at and
\* legal_move) on the engine e
query(h, e, q, pos) ==
    CASE q = "size" -> answer(e, FALSE, e.side)
      [] q = "num_players" -> answer(e, FALSE, e.players)
      [] q = "turn" -> answer(e, FALSE, e.turn)
      [] q = "grid" ->
           LET copy == grid_property(h, e) IN answer(e, FALSE, copy.heap[copy.ref])
      [] q = "available_moves" ->
           IF available_moves_raises(h, e) THEN answer(e, TRUE, <<>>)
           ELSE answer(e, FALSE, available_moves_list(h, e))
      [] q = "done" -> done_call(h, e)
      [] q = "outcome" -> outcome_call(h, e)
      [] q = "piece_at" ->
           IF piece_at_raises(e, pos) THEN answer(e, TRUE, None)
           ELSE answer(e, FALSE, piece_at(h, e, pos))
      [] q = "legal_move" ->
           IF legal_move_raises(h, e, pos) THEN answer(e, TRUE, FALSE)
           ELSE answer(e, FALSE, legal_move(h, e, pos))

\* sim_num_pieces: for every move, simulate_moves([move]) and the number of
\* cells of the simulated grid where piece_at gives turn; the dictionary maps
\* each move to that number
RECURSIVE sim_num_loop(_, _, _, _, _, _)
sim_num_loop(h, e, moves, turn, k, pieces_dict) ==
    IF k > Len(moves) THEN answer(e, FALSE, pieces_dict)
    ELSE LET r == simulate_moves(h, e, <<moves[k]>>) IN
         IF r.status # "ok" THEN answer(e, TRUE, pieces_dict)
         ELSE LET G == GridOf(r.heap, r.eng) IN
              IF \E c \in Cells(G) : piece_at_raises(r.eng, c)
              THEN answer(e, TRUE, pieces_dict)
              ELSE LET num_pieces ==
                           Cardinality({c \in Cells(G) : piece_at(r.heap, r.eng, c) = turn})
                   IN  sim_num_loop(h, e, moves, turn, k + 1,
                           [m \in DOMAIN pieces_dict \cup {moves[k]} |->
                               IF m = moves[k] THEN num_pieces ELSE pieces_dict[m]])

\* a variant that counts the pieces the receiver has now: C27 must tell it
\* from sim_num_pieces
sim_num_pieces_now(h, e, moves, turn) ==
    IF \E k \in 1..Len(moves) : simulate_moves(h, e, <<moves[k]>>).status # "ok"
    THEN answer(e, TRUE, <<>>)
    ELSE answer(e, FALSE,
                [m \in {moves[k] : k \in 1..Len(moves)} |->
                    count_pieces(GridOf(h, e), turn)])

sim_num_pieces(h, e, moves, turn) == sim_num_loop(h, e, moves, turn, 1, <<>>)

\* the engines asked: odd and even sides, Othello or not, and one with more
\* players than the side
QueryEngines ==
    {<<3, 1, FALSE>>, <<3, 3, FALSE>>, <<3, 5, FALSE>>,
     <<4, 2, TRUE>>, <<4, 2, FALSE>>, <<4, 4, FALSE>>}

\* the state after a query returned or raised; the caller keeps the answer
Asked(r, call) ==
    /\ eng' = r.eng
    /\ last' = [op |-> call.op, status |-> r.status, pos |-> call.pos,
                turn |-> call.turn, moves |-> call.moves, value |-> r.value]
    /\ pre' = Snapshot(heap, eng)
    /\ UNCHANGED <<phase, heap, sim, nmoves, caller>>

Query(q, pos) ==
    /\ phase = "live" /\ last = NoCall
    /\ Asked(query(heap, eng, q, pos), [NoCall EXCEPT !.op = q, !.pos = pos])

\* self._game.sim_num_pieces(self._game.available_moves, self._game.turn)
SimNumPieces(moves, turn) ==
    /\ phase = "live" /\ last = NoCall
    /\ Asked(sim_num_pieces(heap, eng, moves, turn),
             [NoCall EXCEPT !.op = "sim_num_pieces", !.moves = moves, !.turn = turn])

\* the lists of moves passed to sim_num_pieces: the legal moves offered, as
\* the bot does, a middle cell alone, and a legal move given twice
MovesAsked(h, e) ==
    LET offered == list_of(Offered(h, e)) IN
    {offered, <<<<e.side \div 2, e.side \div 2>>>>}
    \cup (IF offered = <<>> THEN {} ELSE {<<offered[1], offered[1]>>})

QueryNext ==
    \/ \E c \in QueryEngines : Construct(c[1], c[2], c[3])
    \/ /\ phase = "live" /\ last = NoCall /\ nmoves < MaxMoves
       /\ \E pos \in Offered(heap, eng) \cup Probes(eng) : ApplyMove(pos)
    \/ /\ phase = "live" /\ last = NoCall
       /\ \E inp \in LoadInputs(heap, eng) : LoadGame(inp.turn, inp.grid)
    \/ /\ phase = "live" /\ last = NoCall
       /\ \E q \in QueryNames \ {"piece_at", "legal_move"} : Query(q, NoPos)
    \/ /\ phase = "live" /\ last = NoCall
       /\ \E q \in {"piece_at", "legal_move"}, pos \in Probes(eng) : Query(q, pos)
    \/ /\ phase = "live" /\ last = NoCall
       /\ \E moves \in MovesAsked(heap, eng), turn \in 1..eng.players :
              SimNumPieces(moves, turn)
    \/ Continue

SpecQuery == Init /\ [][QueryNext]_vars

\* ------------------------------------------------------------ a whole game
\* The loop of the TUI and of the bot: while not done, apply a member of
\* available_moves.

\* the number of times the body of the while loop of apply_move runs
RECURSIVE skip_iterations(_, _)
skip_iterations(h, e) ==
    IF available_moves_raises(h, e) THEN 0
    ELSE IF available_moves(h, e) = {} /\ ~done(h, e)
         THEN 1 + skip_iterations(h, [e EXCEPT !.turn = next_turn(e)])
    ELSE 0

\* the games played to their end: one player, three players whose center
\* block is the whole board, and Othello on the 4 x 4 board
PlayEngines ==
    {<<3, 1, FALSE>>, <<3, 3, FALSE>>, <<4, 2, TRUE>>}

\* the state after apply_move returned r, its loop having run steps times;
\* the loop of the caller keeps neither the move nor the grid before it
Played(r, steps) ==
    /\ eng' = r.eng
    /\ heap' = r.heap
    /\ last' = [op |-> "apply_move", status |-> r.status, value |-> steps]
    /\ nmoves' = nmoves + 1
    /\ UNCHANGED <<phase, sim, pre, caller>>

\* game.apply_move(move), move a member of game.available_moves, right after
\* the constructor or the move before; the counter of moves stops the model
\* one move after the board could be full
Plays(pos) ==
    /\ phase = "live" /\ last.op \in {"Reversi", "apply_move"}
    /\ last.status = "ok"
    /\ nmoves <= eng.side * eng.side
    /\ Played(apply_move(heap, eng, pos),
              skip_iterations(place(heap, eng, pos),
                              [eng EXCEPT !.turn = next_turn(eng)]))

PlayNext ==
    \/ \E c \in PlayEngines : Construct(c[1], c[2], c[3])
    \/ /\ phase = "live"
       /\ ~done_raises(heap, eng) /\ ~done(heap, eng)
       /\ \E pos \in available_moves(heap, eng) : Plays(pos)

SpecPlay == Init /\ [][PlayNext]_vars

\* ------------------------------------------------- the opening of a game
\* Games played from the constructor on: the non-Othello engines fill their
\* center block and go on for MaxMoves moves more; the Othello engines take
\* apply_move at any position a caller may pass, legal or not.
OpeningEngines ==
    {<<3, 1, FALSE>>, <<3, 3, FALSE>>, <<4, 2, FALSE>>, <<5, 3, FALSE>>,
     <<6, 2, FALSE>>, <<4, 2, TRUE>>, <<6, 2, TRUE>>}

\* the number of calls of apply_move the model follows: MaxMoves + 1 for an
\* Othello engine; for the others the moves that fill the center squares and
\* MaxMoves - 1 moves after them
OpeningLength(e) ==
    IF e.othello THEN MaxMoves + 1 ELSE e.players * e.players + MaxMoves - 1

\* the positions passed to apply_move: the first MaxChoice members of
\* available_moves; for an Othello engine the probes as well
Chosen(h, e) ==
    IF e.othello THEN Offered(h, e) \cup Probes(e) ELSE Offered(h, e)

\* game.apply_move(pos), right after the constructor or the call before
Opens(pos) ==
    /\ phase = "live" /\ last.op \in {"Reversi", "apply_move"}
    /\ nmoves < OpeningLength(eng)
    /\ Returned(apply_move(heap, eng, pos),
                [NoCall EXCEPT !.op = "apply_move", !.pos = pos])
    /\ nmoves' = nmoves + 1
    /\ UNCHANGED <<phase, caller>>

OpeningNext ==
    \/ \E c \in OpeningEngines : Construct(c[1], c[2], c[3])
    \/ /\ phase = "live"
       /\ \E pos \in Chosen(heap, eng) : Opens(pos)

SpecOpening == Init /\ [][OpeningNext]_vars

\* ------------------------------------------------ VerySmart.best_move
\* sim = self._game.simulate_moves([move])
simulated(h, e, move) == simulate_moves(h, e, <<move>>)

\* sim.done and sim.outcome == [sim.turn]
game_over_shortcut(sim_reversi) ==
    /\ done(sim_reversi.heap, sim_reversi.eng)
    /\ outcome(sim_reversi.heap, sim_reversi.eng) = <<sim_reversi.eng.turn>>

RECURSIVE sum_values(_, _)
sum_values(d, keys) ==
    IF keys = {} THEN 0
    ELSE LET k == CHOOSE k \in keys : TRUE IN d[k] + sum_values(d, keys \ {k})

\* next_num_pc = sim.sim_num_pieces(sim_moves, self._game.turn).values();
\* the average sum / len is kept as the two numbers
next_num_pc(sim_reversi, turn) ==
    CHOOSE avg \in
        {[sum |-> sum_values(d, DOMAIN d), len |-> Cardinality(DOMAIN d)] :
             d \in {sim_num_pieces(sim_reversi.heap, sim_reversi.eng,
                                   available_moves_list(sim_reversi.heap, sim_reversi.eng),
                                   turn).value}} : TRUE

\* a / b >= c / d for the averages of two moves
at_least(x, y) == x.sum * y.len >= y.sum * x.len

\* one pass of the loop over moves, on the simulated game sim_reversi: does
\* the loop return here, does the move get an average, and which
looked_at(e, move, sim_reversi) ==
    [move |-> move,
     over |-> game_over_shortcut(sim_reversi),
     keyed |-> available_moves(sim_reversi.heap, sim_reversi.eng) # {},
     avg |-> next_num_pc(sim_reversi, e.turn)]

\* what the passes found, the simulated game of each move built once
passes(h, e) ==
    UNION {{looked_at(e, move, sim_reversi) :
                sim_reversi \in {simulated(h, e, move)}} :
           move \in available_moves(h, e)}

\* the moves best_move can return after the passes (the order of the list of
\* a set, and random.choice, leave the choice open), and whether the return
\* is the one inside the loop; random.choice raises IndexError on an empty
\* list
returned(found) ==
    IF \E pass \in found : pass.over
    THEN [status |-> "ok", value |-> {pass.move : pass \in {f \in found : f.over}},
          shortcut |-> TRUE]
    ELSE IF ~\E pass \in found : pass.keyed
         THEN [status |-> IF found = {} THEN "IndexError" ELSE "ok",
               value |-> {pass.move : pass \in found}, shortcut |-> FALSE]
    ELSE [status |-> "ok",
          value |-> {best.move : best \in
                        {f \in found : f.keyed /\ \A o \in found :
                                           o.keyed => at_least(f.avg, o.avg)}},
          shortcut |-> FALSE]

best_move(h, e) ==
    IF available_moves_raises(h, e)
    THEN [status |-> "ValueError", value |-> {}, shortcut |-> FALSE]
    ELSE CHOOSE r \in {returned(found) : found \in {passes(h, e)}} : TRUE

\* the games the bots play: one player, and Othello on the 4 x 4 board
BotEngines == {<<3, 1, FALSE>>, <<4, 2, TRUE>>}

\* play(num_games, "very-smart", "random"): the strategy of the player
VerySmartPlays(e) == e.turn = 1

\* p1_strat.best_move, p1_strat = VerySmart(game): the caller holds the move
\* it returned
BestMove ==
    /\ phase = "live" /\ last.op \in {"Reversi", "apply_move"}
    /\ ~done_raises(heap, eng) /\ ~done(heap, eng)
    /\ VerySmartPlays(eng)
    /\ \E r \in {best_move(heap, eng)} : \E move \in r.value :
           last' = [op |-> "best_move", status |-> r.status, pos |-> move,
                    value |-> r.shortcut]
    /\ UNCHANGED <<phase, eng, heap, sim, pre, nmoves, caller>>

\* game.apply_move(p1_strat.best_move), game.apply_move(p2_strat.best_move):
\* the move VerySmart returned for player 1, any member of available_moves
\* (Random.best_move) for player 2
BotPlays(pos) ==
    /\ phase = "live"
    /\ IF VerySmartPlays(eng) THEN last.op = "best_move" /\ pos = last.pos
       ELSE last.op \in {"Reversi", "apply_move"}
    /\ nmoves <= eng.side * eng.side
    /\ LET r == apply_move(heap, eng, pos) IN
       /\ eng' = r.eng
       /\ heap' = r.heap
       /\ last' = [op |-> "apply_move", status |-> r.status]
    /\ nmoves' = nmoves + 1
    /\ UNCHANGED <<phase, sim, pre, caller>>

BotNext ==
    \/ \E c \in BotEngines : Construct(c[1], c[2], c[3])
    \/ BestMove
    \/ /\ phase = "live"
       /\ ~done_raises(heap, eng) /\ ~done(heap, eng)
       /\ \E pos \in available_moves(heap, eng) : BotPlays(pos)

SpecBot == Init /\ [][BotNext]_vars

\* ------------------------------------------------ ReversiGUI.event_loop
\* the window and its border, in pixels
window == 700
border == 40

\* self.square: (self.window - 2 * self.border) // len(self.grid)
square(h, list) == (window - 2 * border) \div Len(h[list])

\* int(a / b), b > 0: the quotient rounded towards zero
int_div(a, b) == IF a >= 0 THEN a \div b ELSE -((-a) \div b)

\* row = int((top - self.border) / self.square), and col from left
clicked_cell(h, list, click) ==
    <<int_div(click[2] - border, square(h, list)),
      int_div(click[1] - border, square(h, list))>>

\* assert 6 <= side <= 20, assert 2 <= players <= 9, then the constructor
\* of the engine
ReversiGUI_raises(side, players, othello) ==
    \/ ~(6 <= side /\ side <= 20)
    \/ ~(2 <= players /\ players <= 9)
    \/ Reversi_raises(side, players, othello)

\* one MOUSEBUTTONDOWN event while the game is not done: when the cell is a
\* member of available_moves, the window's list gets the label of the turn
\* at that cell and the engine applies the move
mouse_button_down(h, e, list, click) ==
    LET cell == clicked_cell(h, list, click) IN
    IF available_moves_raises(h, e) THEN [heap |-> h, eng |-> e, status |-> "ValueError"]
    ELSE IF cell \in available_moves(h, e)
         THEN apply_move([h EXCEPT ![list] = SetAt(h[list], cell, e.turn)], e, cell)
    ELSE [heap |-> h, eng |-> e, status |-> "ok"]

\* for event in events: QUIT leaves the program; when the game is done the
\* event is dropped; a click is handled
RECURSIVE handle_events(_, _, _, _, _)
handle_events(h, e, list, events, k) ==
    IF k > Len(events) THEN [heap |-> h, eng |-> e, status |-> "ok"]
    ELSE IF events[k].type = "QUIT" THEN [heap |-> h, eng |-> e, status |-> "exit"]
    ELSE IF done_raises(h, e) THEN [heap |-> h, eng |-> e, status |-> "ValueError"]
    ELSE IF done(h, e) THEN handle_events(h, e, list, events, k + 1)
    ELSE LET r == mouse_button_down(h, e, list, events[k].pos) IN
         IF r.status # "ok" THEN r
         ELSE handle_events(r.heap, r.eng, list, events, k + 1)

\* the boards of the window: Othello and not, two and four players, and one
\* the assertions refuse
GuiEngines ==
    {<<6, 2, TRUE>>, <<6, 2, FALSE>>, <<6, 4, FALSE>>, <<4, 2, TRUE>>}

\* the pixel in the middle of a cell
pixel_of(h, list, cell) ==
    <<border + cell[2] * square(h, list) + square(h, list) \div 2,
      border + cell[1] * square(h, list) + square(h, list) \div 2>>

\* the events of a batch: clicks in the middle of the first legal move and of
\* the cell in the middle of the board, a click in the border, and QUIT
Events(h, e, list) ==
    {[type |-> "MOUSEBUTTONDOWN", pos |-> pixel_of(h, list, cell)] :
         cell \in Tried(h, e)}
    \cup {[type |-> "MOUSEBUTTONDOWN", pos |-> <<border \div 4, border \div 4>>],
          [type |-> "QUIT", pos |-> <<0, 0>>]}

\* the batches pygame.event.get() returns: no event, one, or two
Batches(h, e, list) ==
    LET all == Events(h, e, list) IN
    {<<>>} \cup {<<ev>> : ev \in all} \cup {<<ev, then>> : ev \in all, then \in all}

\* ReversiGUI(side, players, othello) up to the first iteration of
\* event_loop: the engine, and self.grid = self.reversi.grid
OpenGui(side, players, othello) ==
    /\ phase = "new"
    /\ IF ReversiGUI_raises(side, players, othello)
       THEN /\ phase' = "rejected"
            /\ UNCHANGED <<eng, heap, caller>>
            /\ last' = [op |-> "ReversiGUI", status |-> "AssertionError",
                        moves |-> <<>>, value |-> FALSE]
       ELSE LET made == Reversi(heap, side, players, othello)
                copy == grid_property(made.heap, made.eng)
            IN  /\ phase' = "live"
                /\ eng' = made.eng
                /\ heap' = copy.heap
                /\ caller' = [NoList EXCEPT !.list = copy.ref, !.from = "grid"]
                /\ last' = [op |-> "ReversiGUI", status |-> "ok",
                            moves |-> <<>>, value |-> FALSE]
    /\ UNCHANGED <<sim, pre, nmoves>>

\* one iteration of the while loop of event_loop: the events of the batch,
\* then self.reversi.load_game(self.reversi.turn, self.grid); pre keeps the
\* grid and the turn the calls of apply_move left, last.value whether the
\* list had been loaded before
EventLoop(events) ==
    /\ phase = "live" /\ caller.list # 0
    /\ nmoves + Len(events) <= MaxMoves + 1
    /\ LET r == handle_events(heap, eng, caller.list, events, 1) IN
           IF r.status # "ok"
           THEN /\ phase' = "closed"
                /\ eng' = r.eng
                /\ heap' = r.heap
                /\ caller' = caller
                /\ pre' = Snapshot(r.heap, r.eng)
                /\ last' = [op |-> "event_loop", status |-> r.status,
                            moves |-> events, value |-> caller.loaded]
           ELSE LET loaded == load_game_call(r.heap, r.eng, r.eng.turn, caller.list) IN
                /\ phase' = "live"
                /\ eng' = moved(loaded.eng, <<loaded.eng.grid, caller.list>>)
                /\ heap' = collect(loaded.heap, <<loaded.eng.grid, caller.list>>)
                /\ caller' = [caller EXCEPT
                                 !.list = renumber(live_refs(<<loaded.eng.grid, caller.list>>,
                                                             1, <<>>), caller.list),
                                 !.loaded = TRUE]
                /\ pre' = Snapshot(r.heap, r.eng)
                /\ last' = [op |-> "event_loop", status |-> loaded.status,
                            moves |-> events, value |-> caller.loaded]
    /\ nmoves' = nmoves + Len(events)
    /\ UNCHANGED sim

GuiNext ==
    \/ \E c \in GuiEngines : OpenGui(c[1], c[2], c[3])
    \/ /\ phase = "live" /\ caller.list # 0
       /\ \E events \in Batches(heap, eng, caller.list) : EventLoop(events)

SpecGui == Init /\ [][GuiNext]_vars

\* ------------------------------------------------------- ReversiBotMock
\* ReversiMock.__init__ raises
ReversiBotMock_raises(side, players, othello) ==
    \/ players # 2
    \/ side < 4
    \/ side % 2 # players % 2

\* a new mock, its grid a new object of the heap, player 1 to move
ReversiBotMock(h, side, players, othello) ==
    [heap |-> Append(h, IF othello THEN seeded(side) ELSE EmptyGrid(side)),
     eng  |-> [side |-> side, players |-> players, othello |-> othello,
               grid |-> Len(h) + 1, turn |-> 1]]

\* ReversiBotMock.available_moves: the empty cells next to a piece; with no
\* such cell the property changes the turn of the object
BotMock_moves(h, e) ==
    UNION {{Shift(c, directions[k]) : k \in {k \in 1..Len(directions) :
                 /\ in_bounds(e, Shift(c, directions[k]))
                 /\ At(GridOf(h, e), Shift(c, directions[k])) = None}} :
           c \in {c \in Cells(GridOf(h, e)) : At(GridOf(h, e), c) # None}}

BotMock_available_moves(h, e) ==
    LET moves == BotMock_moves(h, e) IN
    [value |-> moves,
     eng |-> IF moves = {} THEN [e EXCEPT !.turn = IF e.turn = 1 THEN 2 ELSE 1]
             ELSE e]

\* ReversiMock.legal_move: pos in self.available_moves, for a pos on the
\* board
BotMock_legal_move(h, e, pos) ==
    LET available == BotMock_available_moves(h, e) IN
    [value |-> pos \in available.value, eng |-> available.eng]

\* the squares around pos that are on the board
adj_sq(e, pos) ==
    {rc \in {<<pos[1] + i, pos[2] + k>> : i \in -1..1, k \in -1..1} \ {pos} :
        in_bounds(e, rc)}

\* ReversiBotMock.apply_move
BotMock_apply_move(h, e, pos) ==
    IF ~in_bounds(e, pos) THEN [heap |-> h, eng |-> e, status |-> "ValueError"]
    ELSE LET legal == BotMock_legal_move(h, e, pos) IN
         IF ~legal.value THEN [heap |-> h, eng |-> legal.eng, status |-> "ValueError"]
         ELSE LET turn == legal.eng.turn
                  G == GridOf(h, e)
                  after == [i \in 1..Len(G) |-> [j \in 1..Len(G[i]) |->
                               IF <<i - 1, j - 1>> = pos THEN turn
                               ELSE IF /\ <<i - 1, j - 1>> \in adj_sq(e, pos)
                                       /\ G[i][j] \notin {None, turn}
                                    THEN turn
                               ELSE G[i][j]]]
              IN  [heap |-> [h EXCEPT ![e.grid] = after],
                   eng |-> [legal.eng EXCEPT !.turn = next_turn(legal.eng)],
                   status |-> "ok"]

\* ReversiBotMock.load_game
BotMock_load_game_raises(h, e, turn, grid) ==
    \/ turn <= 0 \/ turn > e.players
    \/ Len(h[grid]) # Len(GridOf(h, e))
    \/ \E c \in Cells(h[grid]) :
           At(h[grid], c) # None
           /\ (At(h[grid], c) <= 0 \/ At(h[grid], c) > e.players)

BotMock_load_game(h, e, turn, grid) ==
    IF BotMock_load_game_raises(h, e, turn, grid) THEN e
    ELSE [e EXCEPT !.turn = turn, !.grid = grid]

\* for move in moves: the test of legal_move, then apply_move, on the
\* simulated object
RECURSIVE BotMock_simulate_loop(_, _, _, _, _)
BotMock_simulate_loop(h, e, sim_reversi, moves, k) ==
    IF k > Len(moves)
    THEN [heap |-> h, eng |-> e, sim |-> sim_reversi, status |-> "ok"]
    ELSE IF ~in_bounds(sim_reversi, moves[k])
         THEN [heap |-> h, eng |-> e, sim |-> sim_reversi, status |-> "ValueError"]
    ELSE LET r == BotMock_apply_move(h, sim_reversi, moves[k]) IN
         IF r.status # "ok"
         THEN [heap |-> r.heap, eng |-> e, sim |-> r.eng, status |-> "ValueError"]
         ELSE BotMock_simulate_loop(r.heap, e, r.eng, moves, k + 1)

\* ReversiBotMock.simulate_moves: the heap, the receiver and the object
\* returned; load_game(2, self._grid) and self._turn = 2 come first
BotMock_simulate_moves(h, e, moves) ==
    LET made == ReversiBotMock(h, e.side, e.players, e.othello) IN
    IF BotMock_load_game_raises(made.heap, made.eng, 2, e.grid)
    THEN [heap |-> made.heap, eng |-> e, sim |-> made.eng, status |-> "ValueError"]
    ELSE BotMock_simulate_loop(made.heap, [e EXCEPT !.turn = 2],
                               BotMock_load_game(made.heap, made.eng, 2, e.grid),
                               moves, 1)

\* the mocks the bot is tried on, and three the constructor refuses
MockEngines ==
    {<<4, 2, TRUE>>, <<4, 2, FALSE>>, <<6, 2, TRUE>>,
     <<3, 1, FALSE>>, <<5, 2, FALSE>>, <<2, 2, TRUE>>}

\* the positions passed to the mock: the first MaxChoice of its moves in
\* row-major order, the middle cell and a position off the board
MockTried(h, e) ==
    LET all == BotMock_moves(h, e)
        rank(p) == p[1] * e.side + p[2]
    IN  {p \in all : Cardinality({q \in all : rank(q) < rank(p)}) < MaxChoice}
        \cup {<<e.side \div 2, e.side \div 2>>, <<-1, 0>>}

MockLists(h, e) ==
    LET tried == MockTried(h, e) IN
    {<<>>} \cup {<<m>> : m \in tried} \cup {<<m, n>> : m \in tried, n \in tried}

\* ReversiBotMock(side, players, othello)
MockConstruct(side, players, othello) ==
    /\ phase = "new"
    /\ IF ReversiBotMock_raises(side, players, othello)
       THEN /\ phase' = "rejected"
            /\ UNCHANGED <<eng, heap>>
            /\ last' = [NoCall EXCEPT !.op = "ReversiBotMock", !.status = "ValueError",
                            !.side = side, !.players = players, !.othello = othello]
       ELSE LET made == ReversiBotMock(heap, side, players, othello) IN
            /\ phase' = "live"
            /\ eng' = made.eng
            /\ heap' = made.heap
            /\ last' = [NoCall EXCEPT !.op = "ReversiBotMock",
                            !.side = side, !.players = players, !.othello = othello]
    /\ UNCHANGED <<sim, pre, nmoves, caller>>

\* the state after a call on the receiver or on the object it returned: both
\* stay reachable, pre keeps what the caller read of the receiver before
MockReturned(h, e, s, call) ==
    LET roots == <<e.grid, s.grid>> IN
    /\ eng' = moved(e, roots)
    /\ sim' = moved(s, roots)
    /\ heap' = collect(h, roots)
    /\ last' = call
    /\ pre' = Snapshot(heap, eng)

\* game.apply_move(pos)
MockApplies(pos) ==
    /\ phase = "live" /\ last.op \in {"ReversiBotMock", "apply_move"}
    /\ nmoves < MaxMoves
    /\ LET r == BotMock_apply_move(heap, eng, pos) IN
       MockReturned(r.heap, r.eng, NullEng,
                    [NoCall EXCEPT !.op = "apply_move", !.pos = pos,
                                   !.status = r.status])
    /\ nmoves' = nmoves + 1
    /\ UNCHANGED <<phase, caller>>

\* sim = game.simulate_moves(moves)
MockSimulates(moves) ==
    /\ phase = "live" /\ last.op \in {"ReversiBotMock", "apply_move"}
    /\ LET r == BotMock_simulate_moves(heap, eng, moves) IN
       MockReturned(r.heap, r.eng, IF r.status = "ok" THEN r.sim ELSE NullEng,
                    [NoCall EXCEPT !.op = "simulate_moves", !.moves = moves,
                                   !.status = r.status])
    /\ UNCHANGED <<phase, nmoves, caller>>

\* sim.apply_move(pos), on the object simulate_moves returned
MockSimApplies(pos) ==
    /\ phase = "live" /\ last.op = "simulate_moves" /\ last.status = "ok"
    /\ LET r == BotMock_apply_move(heap, sim, pos) IN
       MockReturned(r.heap, eng, r.eng,
                    [NoCall EXCEPT !.op = "sim.apply_move", !.pos = pos,
                                   !.status = r.status])
    /\ UNCHANGED <<phase, nmoves, caller>>

MockNext ==
    \/ \E c \in MockEngines : MockConstruct(c[1], c[2], c[3])
    \/ /\ phase = "live"
       /\ \E pos \in MockTried(heap, eng) : MockApplies(pos)
    \/ /\ phase = "live"
       /\ \E moves \in MockLists(heap, eng) : MockSimulates(moves)
    \/ /\ phase = "live" /\ sim # NullEng
       /\ \E pos \in MockTried(heap, sim) : MockSimApplies(pos)

SpecMock == Init /\ [][MockNext]_vars

\* -------------------------------------------------------------- properties
\* The rules of the game, stated on a grid and positions without the engine's
\* operators.
Board(side) == (0..(side - 1)) \X (0..(side - 1))

OnBoard(side, pos) == pos \in Board(side)

Compass == ((-1..1) \X (-1..1)) \ {<<0, 0>>}

Step(pos, d, k) == <<pos[1] + k * d[1], pos[2] + k * d[2]>>

\* from pos in direction d: n >= 1 cells holding pieces of players other than
\* p, then a cell holding a piece of p, all on the board
Brackets(G, side, p, pos, d, n) ==
    /\ n >= 1
    /\ OnBoard(side, Step(pos, d, n + 1))
    /\ At(G, Step(pos, d, n + 1)) = p
    /\ \A k \in 1..n : At(G, Step(pos, d, k)) # None /\ At(G, Step(pos, d, k)) # p

CapturingRay(G, side, p, pos, d) == \E n \in 1..side : Brackets(G, side, p, pos, d, n)

\* pos is empty and at least one ray from it captures
CaptureMove(G, side, p, pos) ==
    At(G, pos) = None /\ \E d \in Compass : CapturingRay(G, side, p, pos, d)

\* the cells strictly between pos and the bracketing piece, on every
\* capturing ray
Captured(G, side, p, pos) ==
    {c \in Board(side) :
        \E d \in Compass, n \in 1..side :
            Brackets(G, side, p, pos, d, n) /\ \E k \in 1..n : c = Step(pos, d, k)}

\* the center block: rows and columns (side - players) / 2 up to, and
\* excluding, side - (side - players) / 2, as far as they are on the board
CenterBlock(side, players) ==
    LET lo == (side - players) \div 2 IN
    {pos \in Board(side) : /\ lo <= pos[1] /\ pos[1] < side - lo
                           /\ lo <= pos[2] /\ pos[2] < side - lo}

CenterFull(G, side, players) == \A pos \in CenterBlock(side, players) : At(G, pos) # None

Pieces(G, side, q) == Cardinality({pos \in Board(side) : At(G, pos) = q})

Elements(list) == {list[k] : k \in 1..Len(list)}

\* the engine and the heap as they were when the last call was made
PreHeap == <<pre.grid>>

PreEng == [eng EXCEPT !.grid = 1, !.turn = pre.turn]

Idle == phase = "live" /\ last = NoCall

\* C1: when the center block is fully occupied, legal_move(pos) for the player
\* to move holds exactly when pos is empty and some compass direction shows,
\* next to pos, one or more pieces of other players followed by a piece of the
\* player, all on the board; available_moves lists exactly these positions,
\* each once.
C1_RegimeBLegality ==
    (Idle /\ CenterFull(GridOf(heap, eng), eng.side, eng.players)) =>
        LET G == GridOf(heap, eng)
            capturing == {pos \in Board(eng.side) :
                              CaptureMove(G, eng.side, eng.turn, pos)}
            listed == available_moves_list(heap, eng)
        IN  /\ \A pos \in Board(eng.side) :
                   /\ ~legal_move_raises(heap, eng, pos)
                   /\ legal_move(heap, eng, pos) <=> pos \in capturing
            /\ ~available_moves_raises(heap, eng)
            /\ Elements(listed) = capturing
            /\ Len(listed) = Cardinality(capturing)

\* a position of Regime B that is legal through a run of pieces of two
\* different other players
C1_Witness ==
    /\ Idle /\ CenterFull(GridOf(heap, eng), eng.side, eng.players)
    /\ \E pos \in available_moves(heap, eng), d \in Compass :
           /\ Brackets(GridOf(heap, eng), eng.side, eng.turn, pos, d, 2)
           /\ At(GridOf(heap, eng), Step(pos, d, 1)) # At(GridOf(heap, eng), Step(pos, d, 2))

\* C2: in Othello mode, or at a position outside the center block, apply_move
\* of a legal move by player p gives a grid where pos holds p, every cell
\* strictly between pos and the bracketing piece of p on each ray that
\* captured before the move holds p, and every other cell is as it was; from
\* the Othello start the move (c, c + 1) sets itself and (c, c) to 1 and
\* leaves the turn at 2 (side 8: the move (4, 5)).
C2_ApplyMoveFlips ==
    /\ (/\ last.op = "apply_move"
        /\ is_legal(PreHeap, PreEng, last.pos)
        /\ (eng.othello \/ last.pos \notin CenterBlock(eng.side, eng.players)))
       => /\ last.status = "ok"
          /\ GridOf(heap, eng) =
                 [i \in 1..eng.side |-> [j \in 1..eng.side |->
                     IF \/ <<i - 1, j - 1>> = last.pos
                        \/ <<i - 1, j - 1>> \in
                               Captured(pre.grid, eng.side, pre.turn, last.pos)
                     THEN pre.turn ELSE pre.grid[i][j]]]
    /\ (last.op = "Reversi" /\ last.status = "ok" /\ last.othello)
       => \A side \in {eng.side, 8} :
              LET made == Reversi(<<>>, side, 2, TRUE)
                  c == side \div 2
                  r == apply_move(made.heap, made.eng, <<c, c + 1>>)
              IN  /\ r.status = "ok"
                  /\ GridOf(r.heap, r.eng) =
                         SetAt(SetAt(seeded(side), <<c, c + 1>>, 1), <<c, c>>, 1)
                  /\ r.eng.turn = 2

\* the first move of an Othello game at (c, c + 1)
C2_Witness ==
    /\ last.op = "apply_move" /\ last.status = "ok" /\ eng.othello
    /\ pre.grid = seeded(eng.side) /\ pre.turn = 1
    /\ last.pos = <<eng.side \div 2, eng.side \div 2 + 1>>
    /\ is_legal(PreHeap, PreEng, last.pos)
    /\ At(GridOf(heap, eng), <<eng.side \div 2, eng.side \div 2>>) = 1
    /\ eng.turn = 2

HasMove(h, e, q) == available_moves(h, [e EXCEPT !.turn = q]) # {}

\* the players after p in cyclic order: p + 1, ..., P, 1, ..., p
CyclicAfter(p, P) == [k \in 1..P |-> ((p + k - 1) % P) + 1]

\* C3: after apply_move by player p, if some player has an available move in
\* the new grid, the turn is the first player in the cyclic order p + 1, ...,
\* P, 1, ..., p who has one, every player before them in that order having
\* none.
C3_TurnAdvance ==
    (/\ last.op = "apply_move" /\ last.status = "ok"
     /\ ~available_moves_raises(heap, eng)
     /\ \E q \in 1..eng.players : HasMove(heap, eng, q))
    => LET order == CyclicAfter(pre.turn, eng.players) IN
       \E k \in 1..eng.players :
           /\ eng.turn = order[k]
           /\ HasMove(heap, eng, order[k])
           /\ \A j \in 1..(k - 1) : ~HasMove(heap, eng, order[j])

\* test_turn_skip_1: player 2 has no answer to (2, 0), the turn stays 1
C3_Witness ==
    /\ last.op = "apply_move" /\ last.status = "ok"
    /\ pre.grid = TurnSkip4 /\ pre.turn = 1 /\ last.pos = <<2, 0>>
    /\ ~HasMove(heap, eng, 2)
    /\ eng.turn = 1

\* C4: done is true exactly when no board position is a legal move for any
\* player 1..players on the current grid, each taken as the player to move;
\* this can hold while empty cells remain.
C4_DoneIffNoMoves ==
    (Idle /\ ~done_raises(heap, eng)) =>
        (done(heap, eng) <=>
            \A q \in 1..eng.players : \A pos \in Board(eng.side) :
                ~legal_move(heap, [eng EXCEPT !.turn = q], pos))

\* a finished game with empty cells
C4_Witness ==
    /\ Idle /\ ~done_raises(heap, eng) /\ done(heap, eng)
    /\ \E pos \in Board(eng.side) : At(GridOf(heap, eng), pos) = None

C6_SimulateKeepsReceiver ==
    last.op = "simulate_moves" =>
        GridOf(heap, eng) = pre.grid /\ eng.turn = pre.turn

\* a simulation that applied a move and then failed on an occupied cell
C6_Witness ==
    /\ last.op = "simulate_moves" /\ last.status = "ValueError"
    /\ Len(last.moves) = 2
    /\ OnBoard(eng.side, last.moves[2])
    /\ At(pre.grid, last.moves[1]) = None

\* the moves applied one after another with apply_move to the engine e of
\* heap h; "excluded" when a move is off the board or finds its cell occupied
RECURSIVE OneByOne(_, _, _, _)
OneByOne(h, e, moves, k) ==
    IF k > Len(moves) THEN [heap |-> h, eng |-> e, status |-> "ok"]
    ELSE IF ~OnBoard(e.side, moves[k]) THEN [heap |-> h, eng |-> e, status |-> "excluded"]
    ELSE IF At(GridOf(h, e), moves[k]) # None
         THEN [heap |-> h, eng |-> e, status |-> "excluded"]
    ELSE LET r == apply_move(h, e, moves[k]) IN
         IF r.status # "ok" THEN r ELSE OneByOne(r.heap, r.eng, moves, k + 1)

\* C7: for a list of moves on the board, each finding its cell empty when it
\* is reached, simulate_moves returns an engine of the same side, players and
\* Othello flag whose grid and turn are those of the same moves applied one
\* after another with apply_move to a copy of the receiver (each move placed
\* for the player who holds the turn after the moves before it, skips
\* included); simulate_moves of the empty list returns the receiver's state.
C7_SimulateIsSequentialApply ==
    last.op = "simulate_moves" =>
        LET want == OneByOne(PreHeap, PreEng, last.moves, 1) IN
        /\ want.status = "ok" =>
               /\ last.status = "ok"
               /\ sim.side = eng.side /\ sim.players = eng.players
               /\ sim.othello = eng.othello
               /\ GridOf(heap, sim) = GridOf(want.heap, want.eng)
               /\ sim.turn = want.eng.turn
        /\ want.status = "ValueError" => last.status = "ValueError"
        /\ last.moves = <<>> =>
               /\ last.status = "ok"
               /\ GridOf(heap, sim) = pre.grid /\ sim.turn = pre.turn

\* two simulated moves, the second placed for player 4 because players 2 and
\* 3 were skipped after the first
C7_Witness ==
    /\ last.op = "simulate_moves" /\ last.status = "ok"
    /\ Len(last.moves) = 2
    /\ pre.grid = Skip6 /\ pre.turn = 1
    /\ At(GridOf(heap, sim), last.moves[1]) = 1
    /\ At(GridOf(heap, sim), last.moves[2]) = 4

\* what load_game must refuse
BadLoad(side, players, turn, grid) ==
    \/ turn \notin 1..players
    \/ Len(grid) # side
    \/ \E i \in 1..Len(grid) : \E j \in 1..Len(grid[i]) :
           grid[i][j] # None /\ grid[i][j] \notin 1..players

\* C8: load_game fails whenever the turn is outside 1..players, or the grid's
\* number of rows differs from side, or some cell holds a value that is
\* neither None nor in 1..players; after a failed load_game the engine's grid
\* and turn are what they were before the call.
C8_LoadGameRejects ==
    last.op = "load_game" =>
        /\ BadLoad(eng.side, eng.players, last.turn, last.grid)
               => last.status = "ValueError"
        /\ last.status = "ValueError"
               => GridOf(heap, eng) = pre.grid /\ eng.turn = pre.turn

\* a load refused for the label 0 in a cell only, by an engine whose turn
\* differs from the given one
C8_Witness ==
    /\ last.op = "load_game" /\ last.status = "ValueError"
    /\ last.turn \in 1..eng.players /\ Len(last.grid) = eng.side
    /\ At(last.grid, <<eng.side - 1, eng.side - 1>>) = 0
    /\ pre.turn # last.turn
    /\ GridOf(heap, eng) = pre.grid /\ eng.turn = pre.turn

\* C9: a successful load_game(turn, grid) leaves the turn equal to the given
\* turn and the grid equal to the given grid cell for cell; no player is
\* skipped, even when the loaded player has no available move.
C9_LoadGameInstalls ==
    (last.op = "load_game" /\ last.status = "ok") =>
        eng.turn = last.turn /\ GridOf(heap, eng) = last.grid

\* a load that leaves the turn with a player who cannot move while another can
C9_Witness ==
    /\ last.op = "load_game" /\ last.status = "ok"
    /\ ~available_moves_raises(heap, eng)
    /\ ~HasMove(heap, eng, last.turn)
    /\ \E q \in 1..eng.players : HasMove(heap, eng, q)
    /\ eng.turn = last.turn

\* C10: Reversi(side, players, othello) fails if side and players differ in
\* parity, or othello is true and players is not 2, or side < 3; in every
\* other case it succeeds.
C10_Construction ==
    last.op = "Reversi" =>
        (last.status = "ValueError" <=>
            \/ last.side % 2 # last.players % 2
            \/ last.othello /\ last.players # 2
            \/ last.side < 3)

\* an Othello request of side 3 is refused
C10_Witness ==
    /\ last.op = "Reversi" /\ last.status = "ValueError"
    /\ last.othello /\ last.side = 3 /\ last.players = 2

\* C11: an engine constructed with players <= side has turn 1, is not done
\* and has the empty outcome; without Othello seeding every cell of its side
\* x side grid is empty; with it exactly four cells are occupied: (c, c) = 2,
\* (c - 1, c) = 1, (c - 1, c - 1) = 2, (c, c - 1) = 1, c = side / 2.
C11_FreshEngine ==
    (last.op = "Reversi" /\ last.status = "ok" /\ last.players <= last.side) =>
        LET G == GridOf(heap, eng)
            c == last.side \div 2
            seed == {<<c, c>>, <<c - 1, c>>, <<c - 1, c - 1>>, <<c, c - 1>>}
        IN  /\ eng.turn = 1
            /\ ~done_raises(heap, eng) /\ ~done(heap, eng)
            /\ ~outcome_raises(heap, eng) /\ outcome(heap, eng) = <<>>
            /\ Len(G) = last.side /\ \A i \in 1..Len(G) : Len(G[i]) = last.side
            /\ ~last.othello => \A pos \in Board(last.side) : At(G, pos) = None
            /\ last.othello =>
                   /\ At(G, <<c, c>>) = 2 /\ At(G, <<c - 1, c>>) = 1
                   /\ At(G, <<c - 1, c - 1>>) = 2 /\ At(G, <<c, c - 1>>) = 1
                   /\ \A pos \in Board(last.side) \ seed : At(G, pos) = None

\* a new Othello engine of side 6
C11_Witness ==
    /\ last.op = "Reversi" /\ last.status = "ok"
    /\ last.othello /\ last.side = 6 /\ last.players = 2
    /\ At(GridOf(heap, eng), <<3, 3>>) = 2 /\ At(GridOf(heap, eng), <<2, 3>>) = 1
    /\ eng.turn = 1

\* the four opening moves of player 1 on the Othello start of a board
OthelloOpening(side) ==
    LET c == side \div 2 IN
    {<<c - 2, c - 1>>, <<c - 1, c - 2>>, <<c, c + 1>>, <<c + 1, c>>}

\* C12: on a new Othello engine of even side >= 4, player 1 to move,
\* available_moves is exactly {(c-2, c-1), (c-1, c-2), (c, c+1), (c+1, c)},
\* c = side / 2, and legal_move is false at every other board position (the
\* constructed engines, and the engines of side 8 and 10 computed by the same
\* operators).
C12_OthelloOpening ==
    (last.op = "Reversi" /\ last.status = "ok" /\ last.othello) =>
        /\ ~available_moves_raises(heap, eng)
        /\ available_moves(heap, eng) = OthelloOpening(eng.side)
        /\ \A pos \in Board(eng.side) :
               legal_move(heap, eng, pos) <=> pos \in OthelloOpening(eng.side)
        /\ \A side \in {8, 10} :
               LET made == Reversi(<<>>, side, 2, TRUE) IN
               /\ made.eng.turn = 1
               /\ ~available_moves_raises(made.heap, made.eng)
               /\ available_moves(made.heap, made.eng) = OthelloOpening(side)
               /\ \A pos \in Board(side) :
                      legal_move(made.heap, made.eng, pos)
                          <=> pos \in OthelloOpening(side)

\* a new Othello engine of side 4 offering its four opening moves
C12_Witness ==
    /\ last.op = "Reversi" /\ last.status = "ok" /\ last.othello /\ last.side = 4
    /\ eng.turn = 1
    /\ available_moves(heap, eng) = {<<0, 1>>, <<1, 0>>, <<2, 3>>, <<3, 2>>}

\* no piece lies outside the center block
OutsideEmpty(G, side, players) ==
    \A pos \in Board(side) \ CenterBlock(side, players) : At(G, pos) = None

\* legal_move returns at every board position, for every player to move, and
\* is true exactly at the empty cells of the center block
CenterRule(h, e) ==
    \A q \in 1..e.players : \A pos \in Board(e.side) :
        /\ ~legal_move_raises(h, [e EXCEPT !.turn = q], pos)
        /\ legal_move(h, [e EXCEPT !.turn = q], pos)
               <=> (pos \in CenterBlock(e.side, e.players) /\ At(GridOf(h, e), pos) = None)

OpeningPhase ==
    /\ Idle
    /\ ~CenterFull(GridOf(heap, eng), eng.side, eng.players)
    /\ OutsideEmpty(GridOf(heap, eng), eng.side, eng.players)

\* C13: when the center block is not fully occupied and no cell outside it is
\* occupied, legal_move(pos) is true exactly for the empty cells of the
\* center block, whoever is to move.  As stated, for every engine the
\* constructor accepts.
C13_AsClaimed == OpeningPhase => CenterRule(heap, eng)

\* C13 for the engines with players <= side, whose center block lies on the
\* board
C13_CenterOpening ==
    (OpeningPhase /\ eng.players <= eng.side) => CenterRule(heap, eng)

\* a new engine with more players than rows: legal_move raises at the empty
\* middle cell
C13_Witness ==
    /\ OpeningPhase /\ eng.players > eng.side
    /\ At(GridOf(heap, eng), <<1, 1>>) = None
    /\ legal_move_raises(heap, eng, <<1, 1>>)

\* the claim's case where the code agrees: a center block partly filled by
\* play, the rest of it legal for the player to move
C13_Opening_Reached ==
    /\ OpeningPhase /\ eng.players <= eng.side
    /\ \E pos \in CenterBlock(eng.side, eng.players) : At(GridOf(heap, eng), pos) # None
    /\ CenterRule(heap, eng)

\* Regime A fallback: the center block is not full and a piece lies outside it
Fallback ==
    /\ Idle
    /\ ~CenterFull(GridOf(heap, eng), eng.side, eng.players)
    /\ ~OutsideEmpty(GridOf(heap, eng), eng.side, eng.players)

\* the first occupied cell outside the center block, in row-major order
ForcedPoint(G, side, players) ==
    LET found == {c \in Board(side) \ CenterBlock(side, players) : At(G, c) # None}
    IN  CHOOSE c \in found :
            \A o \in found : c[1] < o[1] \/ (c[1] = o[1] /\ c[2] <= o[2])

\* C14 as stated: in the fallback, legal_move at an empty pos is the capture
\* rule evaluated at the first occupied outside-center cell of the row-major
\* scan, not at pos.
C14_AsClaimed ==
    Fallback =>
        \A pos \in Board(eng.side) :
            At(GridOf(heap, eng), pos) = None =>
                (legal_move(heap, eng, pos) <=>
                    \E d \in Compass :
                        CapturingRay(GridOf(heap, eng), eng.side, eng.turn,
                                     ForcedPoint(GridOf(heap, eng), eng.side, eng.players),
                                     d))

\* C14, amended: in the fallback, legal_move(pos) is the capture rule
\* evaluated at pos itself: true exactly when pos is empty and some ray from
\* pos captures; the scan for an occupied outside-center cell only selects
\* this rule.
C14_FallbackAtPos ==
    Fallback =>
        \A pos \in Board(eng.side) :
            /\ ~legal_move_raises(heap, eng, pos)
            /\ legal_move(heap, eng, pos)
                   <=> CaptureMove(GridOf(heap, eng), eng.side, eng.turn, pos)

\* a fallback state where a ray captures from the forced point, one empty
\* position is legal and another is not
C14_Witness ==
    /\ Fallback
    /\ \E d \in Compass :
           CapturingRay(GridOf(heap, eng), eng.side, eng.turn,
                        ForcedPoint(GridOf(heap, eng), eng.side, eng.players), d)
    /\ \E p1, p2 \in Board(eng.side) :
           /\ At(GridOf(heap, eng), p1) = None /\ At(GridOf(heap, eng), p2) = None
           /\ legal_move(heap, eng, p1) /\ ~legal_move(heap, eng, p2)

\* a ray in the sense of "zero or more": n >= 0 cells of other players, then
\* a cell of p, all on the board
LooseRay(G, side, p, pos, d) ==
    \E n \in 0..side :
        /\ OnBoard(side, Step(pos, d, n + 1))
        /\ At(G, Step(pos, d, n + 1)) = p
        /\ \A k \in 1..n : At(G, Step(pos, d, k)) # None /\ At(G, Step(pos, d, k)) # p

RegimeB == Idle /\ CenterFull(GridOf(heap, eng), eng.side, eng.players)

\* C15 as stated: a ray captures when it passes through zero or more cells of
\* other players and lands on a cell of the mover; in Regime B legal_move is
\* true for an empty pos exactly when some ray captures in this sense (an
\* empty cell next to a piece of the mover is legal).
C15_AsClaimed ==
    RegimeB =>
        \A pos \in Board(eng.side) :
            At(GridOf(heap, eng), pos) = None =>
                (legal_move(heap, eng, pos) <=>
                    \E d \in Compass :
                        LooseRay(GridOf(heap, eng), eng.side, eng.turn, pos, d))

\* C15, amended: a ray captures when it passes through one or more cells of
\* other players and then lands on a cell of the mover, all on the board
\* (_check_direction then returns that cell, and None otherwise); in Regime B
\* legal_move is true for an empty pos exactly when some ray captures in this
\* sense, so a piece of the mover right next to pos does not make it legal.
C15_RayNeedsOpponent ==
    Idle =>
        LET G == GridOf(heap, eng) IN
        /\ \A pos \in Board(eng.side) : \A k \in 1..Len(directions) :
               LET got == check_direction(heap, eng, eng.turn, pos, directions[k]) IN
               /\ got # NoPos <=> CapturingRay(G, eng.side, eng.turn, pos, directions[k])
               /\ got # NoPos =>
                      \E n \in 1..eng.side :
                          /\ Brackets(G, eng.side, eng.turn, pos, directions[k], n)
                          /\ got = Step(pos, directions[k], n + 1)
        /\ CenterFull(G, eng.side, eng.players) =>
               \A pos \in Board(eng.side) :
                   At(G, pos) = None =>
                       (legal_move(heap, eng, pos) <=>
                           \E d \in Compass : CapturingRay(G, eng.side, eng.turn, pos, d))

\* Regime B: an empty cell next to a piece of the mover that is not a legal
\* move
C15_Witness ==
    /\ RegimeB
    /\ \E pos \in Board(eng.side) :
           /\ At(GridOf(heap, eng), pos) = None
           /\ \E d \in Compass :
                  /\ OnBoard(eng.side, Step(pos, d, 1))
                  /\ At(GridOf(heap, eng), Step(pos, d, 1)) = eng.turn
           /\ ~legal_move(heap, eng, pos)

\* C16: in a non-Othello engine, apply_move at a position of the center block
\* sets that cell to the mover's label and changes no other cell, even when a
\* ray from the position captures.
C16_CenterPlacementOnly ==
    (/\ last.op = "apply_move" /\ ~eng.othello
     /\ OnBoard(eng.side, last.pos)
     /\ last.pos \in CenterBlock(eng.side, eng.players))
    => GridOf(heap, eng) = SetAt(pre.grid, last.pos, pre.turn)

\* a placement in the center block from which a ray captured: nothing flipped
C16_Witness ==
    /\ last.op = "apply_move" /\ last.status = "ok" /\ ~eng.othello
    /\ OnBoard(eng.side, last.pos)
    /\ last.pos \in CenterBlock(eng.side, eng.players)
    /\ At(pre.grid, last.pos) = None
    /\ \E d \in Compass : CapturingRay(pre.grid, eng.side, pre.turn, last.pos, d)
    /\ GridOf(heap, eng) = SetAt(pre.grid, last.pos, pre.turn)

FirstPiece(G, side, q) ==
    LET at == {c[1] * side + c[2] : c \in {b \in Board(side) : At(G, b) = q}}
    IN  CHOOSE n \in at : \A m \in at : n <= m

Tied == /\ Idle /\ ~done_raises(heap, eng) /\ done(heap, eng)
        /\ Len(outcome(heap, eng)) > 1

\* full 8 x 8 boards with 32 pieces each: player 1 holds the upper half, or
\* the lower half
UpperHalf8 == [i \in 1..8 |-> [j \in 1..8 |-> IF i <= 4 THEN 1 ELSE 2]]
LowerHalf8 == [i \in 1..8 |-> [j \in 1..8 |-> IF i <= 4 THEN 2 ELSE 1]]
Othello8 == [side |-> 8, players |-> 2, othello |-> TRUE, grid |-> 1, turn |-> 1]
OutcomeUpper8 == outcome(<<UpperHalf8>>, Othello8)
OutcomeLower8 == outcome(<<LowerHalf8>>, Othello8)

\* C18 as stated: the tied players come in ascending label order, and every
\* full 8 x 8 board with 32 pieces each gives <<1, 2>>.
C18_AsClaimed ==
    /\ Tied => LET out == outcome(heap, eng)
               IN  \A k \in 1..(Len(out) - 1) : out[k] < out[k + 1]
    /\ OutcomeUpper8 = <<1, 2>>
    /\ OutcomeLower8 = <<1, 2>>

\* C18: when the game is done with several players tied, outcome lists them
\* in the order in which the row-major scan of the grid first meets a piece of
\* each; a full 8 x 8 board with 32 pieces each gives <<1, 2>> when player 1
\* holds the first cell and <<2, 1>> when player 2 does.
C18_TiedInScanOrder ==
    /\ Tied => LET out == outcome(heap, eng)
                   G == GridOf(heap, eng)
               IN  \A k \in 1..(Len(out) - 1) :
                       FirstPiece(G, eng.side, out[k]) < FirstPiece(G, eng.side, out[k + 1])
    /\ OutcomeUpper8 = <<1, 2>>
    /\ OutcomeLower8 = <<2, 1>>

\* a game ended by a move in a tie, player 2 listed before player 1
C18_Witness ==
    /\ Tied /\ nmoves > 0
    /\ outcome(heap, eng) = <<2, 1>>

\* some move of the list is off the board, or finds its cell occupied in the
\* position the moves before it have made
Rejected(h, e, moves) == OneByOne(h, e, moves, 1).status = "excluded"

SimulateFailsExactly ==
    /\ last.status = "ValueError" <=> Rejected(PreHeap, PreEng, last.moves)
    /\ last.status = "ValueError" => sim = NullEng
    /\ last.status = "ok" => sim # NullEng

\* C19 as stated, for every engine: simulate_moves fails, returning no
\* engine, exactly when a move is off the board or finds its cell occupied.
C19_AsClaimed ==
    last.op = "simulate_moves" => SimulateFailsExactly

\* C19: on an engine with players <= side, simulate_moves fails and returns
\* no engine exactly when some move of the list is off the board or finds its
\* cell occupied when it is reached (in the receiver's grid or by an earlier
\* move of the list); an empty cell that is not a legal move is accepted.
C19_SimulateRejects ==
    (last.op = "simulate_moves" /\ eng.players <= eng.side) => SimulateFailsExactly

\* more players than the side: a simulated move on the board, to an empty
\* cell, and simulate_moves fails
C19_Witness ==
    /\ last.op = "simulate_moves" /\ last.status = "ValueError"
    /\ eng.players > eng.side
    /\ Len(last.moves) = 1
    /\ OnBoard(eng.side, last.moves[1])
    /\ At(pre.grid, last.moves[1]) = None

\* a simulated move to an empty cell that is no legal move is accepted
C19_IllegalAccepted ==
    /\ last.op = "simulate_moves" /\ last.status = "ok"
    /\ eng.players <= eng.side
    /\ Len(last.moves) > 0
    /\ ~is_legal(PreHeap, PreEng, last.moves[1])

\* a list fails at its second move, on the cell its first move took or flipped
C19_OccupiedByEarlier ==
    /\ last.op = "simulate_moves" /\ last.status = "ValueError"
    /\ eng.players <= eng.side
    /\ Len(last.moves) = 2
    /\ OnBoard(eng.side, last.moves[2])
    /\ At(pre.grid, last.moves[2]) = None

\* the positions next to the board and on it
Around(side) == (-1..side) \X (-1..side)

\* C20: piece_at, legal_move and apply_move fail with the out-of-bounds error
\* for a position with a coordinate outside 0..side-1, and the failed
\* apply_move leaves the grid and the turn as they were; piece_at returns the
\* content of the cell for a position on the board.
C20_BoundsFirst ==
    /\ phase = "live" =>
           \A pos \in Around(eng.side) :
               IF OnBoard(eng.side, pos)
               THEN /\ ~piece_at_raises(eng, pos)
                    /\ piece_at(heap, eng, pos)
                           = GridOf(heap, eng)[pos[1] + 1][pos[2] + 1]
               ELSE /\ piece_at_raises(eng, pos)
                    /\ legal_move_raises(heap, eng, pos)
                    /\ apply_move(heap, eng, pos)
                           = [heap |-> heap, eng |-> eng, status |-> "ValueError"]
    /\ (last.op = "apply_move" /\ ~OnBoard(eng.side, last.pos)) =>
           /\ last.status = "ValueError"
           /\ GridOf(heap, eng) = pre.grid
           /\ eng.turn = pre.turn

\* apply_move refused a position whose column is side, on a board with
\* pieces, after a move
C20_Witness ==
    /\ last.op = "apply_move" /\ last.status = "ValueError"
    /\ last.pos = <<eng.side - 1, eng.side>>
    /\ eng.players <= eng.side
    /\ \E c \in Board(eng.side) : At(pre.grid, c) # None
    /\ GridOf(heap, eng) = pre.grid /\ eng.turn = pre.turn

\* ------------------------------------------------------------ C21 .. C30
RowLengths(G) == [i \in 1..Len(G) |-> Len(G[i])]

Square(G, side) == RowLengths(G) = [i \in 1..side |-> side]

\* C21 as stated: in every reachable state the grid has exactly side rows of
\* exactly side cells each.
C21_AsClaimed ==
    phase = "live" => Square(GridOf(heap, eng), eng.side)

\* C21, as far as the code goes: the grid always has exactly side rows; the
\* constructor makes rows of side cells, and the length of the rows changes
\* only when load_game succeeds, to the lengths of the rows it was passed.
C21_RowsOnlyChecked ==
    phase = "live" =>
        LET G == GridOf(heap, eng) IN
        /\ Len(G) = eng.side
        /\ last.op = "Reversi" => Square(G, eng.side)
        /\ (last.op = "load_game" /\ last.status = "ok") =>
               RowLengths(G) = RowLengths(last.grid)
        /\ (last.op \notin {"none", "Reversi", "load_game"}
                \/ (last.op = "load_game" /\ last.status # "ok")) =>
               RowLengths(G) = RowLengths(pre.grid)

\* load_game took a list whose rows are longer than the side
C21_Witness ==
    /\ last.op = "load_game" /\ last.status = "ok"
    /\ ~Square(GridOf(heap, eng), eng.side)
    /\ Square(pre.grid, eng.side)

Label(e, v) == v = None \/ v \in 1..e.players

Valid(h, e) ==
    /\ \A c \in Cells(GridOf(h, e)) : Label(e, At(GridOf(h, e), c))
    /\ e.turn \in 1..e.players

\* C22: in every state reached through the constructor, apply_move,
\* load_game (accepted or refused) and simulate_moves, every cell of the grid
\* is None or a label in 1..players and the turn is in 1..players; the same
\* holds of the engine simulate_moves returns.
C22_LabelsAndTurn ==
    phase = "live" =>
        /\ Valid(heap, eng)
        /\ sim # NullEng => Valid(heap, sim)

\* after a move, load_game refused a turn above players, and the engine still
\* holds labels and a turn in range
C22_Witness ==
    /\ last.op = "load_game" /\ last.status = "ValueError"
    /\ last.turn = eng.players + 1
    /\ nmoves > 0
    /\ Valid(heap, eng)

\* a call that is neither apply_move nor load_game on the receiver
Elsewhere ==
    last.op \in {"grid", "list", "write", "other.load_game", "other.apply_move",
                 "simulate_moves"}

\* C23 as stated: the grid of the engine changes only by apply_move or
\* load_game called on it; a write of the caller to a list it passed to
\* load_game, or a move on another engine loaded with that list, leaves it
\* unchanged.
C23_AsClaimed ==
    Elsewhere => GridOf(heap, eng) = pre.grid /\ eng.turn = pre.turn

\* C23, as far as the code goes: as long as load_game has not taken the list
\* the caller keeps, no call other than apply_move and load_game on the
\* engine changes its grid or its turn; once load_game has taken the list,
\* the engine's grid is that very list.
C23_UntilLoaded ==
    /\ (Elsewhere /\ ~caller.loaded) =>
           GridOf(heap, eng) = pre.grid /\ eng.turn = pre.turn
    /\ (last.op = "load_game" /\ last.status = "ok") => eng.grid = caller.list

\* the caller wrote to the list it had passed to load_game, and the grid of
\* the engine changed
C23_Witness ==
    /\ last.op = "write" /\ caller.loaded /\ caller.from = "list"
    /\ GridOf(heap, eng) # pre.grid
    /\ GridOf(heap, eng) = SetAt(pre.grid, last.pos, At(heap[caller.list], last.pos))

\* a move on a second engine loaded with the same list changed the grid of
\* the first
C23_AcrossEngines ==
    /\ last.op = "other.apply_move" /\ caller.other = "load_game"
    /\ GridOf(heap, eng) # pre.grid
    /\ GridOf(heap, eng) = GridOf(heap, sim)

\* the caller keeps a list the grid property returned and has not passed it
\* to load_game
Snapshot_Held == caller.from = "grid" /\ ~caller.loaded

\* C24: the list the grid property returns and the engine simulate_moves
\* returns share nothing with the receiver: a write to the list, or a move on
\* the returned engine, leaves the receiver's grid and turn as they were, and
\* a move on the receiver leaves the list and the returned engine as they
\* were.
C24_NothingShared ==
    /\ (last.op = "write" /\ Snapshot_Held) =>
           GridOf(heap, eng) = pre.grid /\ eng.turn = pre.turn
    /\ (last.op = "other.apply_move" /\ caller.other = "simulate_moves") =>
           GridOf(heap, eng) = pre.grid /\ eng.turn = pre.turn
    /\ (last.op = "apply_move" /\ Snapshot_Held) =>
           heap[caller.list] = pre.list
    /\ (last.op = "apply_move" /\ caller.other = "simulate_moves") =>
           GridOf(heap, sim) = pre.simgrid /\ sim.turn = pre.simturn

\* a move on the engine simulate_moves returned changed that engine and not
\* the receiver
C24_Witness ==
    /\ last.op = "other.apply_move" /\ last.status = "ok"
    /\ caller.other = "simulate_moves"
    /\ GridOf(heap, sim) # pre.simgrid
    /\ GridOf(heap, eng) = pre.grid

\* a move on the receiver changed its grid and not the list read before
C24_SnapshotKept ==
    /\ last.op = "apply_move" /\ last.status = "ok" /\ Snapshot_Held
    /\ GridOf(heap, eng) # pre.grid
    /\ heap[caller.list] = pre.list

IsQuery == last.op \in QueryNames

\* C25 as stated: no query changes the grid or the turn, whether it returns
\* or fails; done always restores the turn.
C25_AsClaimed ==
    IsQuery => GridOf(heap, eng) = pre.grid /\ eng.turn = pre.turn

\* C25, as far as the code goes: no query changes the grid; a query that
\* returns leaves the turn as it was, and so does a failing size,
\* num_players, grid, turn, available_moves, piece_at or legal_move; done and
\* outcome, when they fail, leave the turn at player 1, the first one asked.
C25_QueriesThatReturn ==
    IsQuery =>
        /\ GridOf(heap, eng) = pre.grid
        /\ eng.side = PreEng.side /\ eng.players = PreEng.players
        /\ (last.status = "ok" \/ last.op \notin {"done", "outcome"}) =>
               eng.turn = pre.turn
        /\ (last.status # "ok" /\ last.op \in {"done", "outcome"}) => eng.turn = 1

\* done failed and left the turn at another player than before
C25_Witness ==
    /\ last.op = "done" /\ last.status = "ValueError"
    /\ eng.turn # pre.turn

\* done returned on a game that another player than 1 has to move in, and the
\* turn is as before
C25_Restored ==
    /\ last.op = "done" /\ last.status = "ok" /\ last.value = FALSE
    /\ pre.turn > 1 /\ eng.turn = pre.turn

Answers ==
    /\ (last.op = "legal_move" /\ OnBoard(eng.side, last.pos)) =>
           last.status = "ok" /\ last.value \in BOOLEAN
    /\ (last.op = "legal_move" /\ ~OnBoard(eng.side, last.pos)) =>
           last.status = "ValueError"
    /\ last.op \in {"available_moves", "done"} => last.status = "ok"

\* C26 as stated: on every engine the constructor made, players > side
\* included, legal_move returns true or false for every position on the
\* board and fails for the others, and available_moves and done return.
C26_AsClaimed == Answers

\* C26, as far as the code goes: the statement holds on every engine with
\* players <= side; with players > side legal_move fails at every empty cell
\* of the board and returns false at the occupied ones, and available_moves
\* and done fail unless the board is full.
C26_WithinTheSide ==
    /\ eng.players <= eng.side => Answers
    /\ (eng.players > eng.side /\ last.op = "legal_move"
            /\ OnBoard(eng.side, last.pos)) =>
           IF At(pre.grid, last.pos) = None THEN last.status = "ValueError"
           ELSE last.status = "ok" /\ last.value = FALSE
    /\ (eng.players > eng.side /\ last.op \in {"available_moves", "done"}) =>
           (last.status = "ValueError"
               <=> \E c \in Board(eng.side) : At(pre.grid, c) = None)

\* more players than the side: legal_move failed for a position on the board
C26_Witness ==
    /\ last.op = "legal_move" /\ last.status = "ValueError"
    /\ OnBoard(eng.side, last.pos)
    /\ eng.players > eng.side

\* players <= side: legal_move answered false for an empty cell on a board in
\* play
C26_Answered ==
    /\ last.op = "legal_move" /\ last.status = "ok" /\ last.value = FALSE
    /\ eng.players <= eng.side /\ nmoves > 0
    /\ OnBoard(eng.side, last.pos) /\ At(pre.grid, last.pos) = None

\* the moves of a list, each once
Given(moves) == {moves[k] : k \in 1..Len(moves)}

\* the number of cells labelled turn in the grid of simulate_moves([m])
PiecesAfter(h, e, m, turn) ==
    LET r == simulate_moves(h, e, <<m>>) IN
    Pieces(GridOf(r.heap, r.eng), e.side, turn)

\* C27: sim_num_pieces(moves, turn), when simulate_moves accepts every move
\* given, returns a mapping with one entry for each move m given, its value
\* the number of cells labelled turn in the grid of simulate_moves([m]), each
\* move taken from the receiver's state; it fails when simulate_moves refuses
\* a move; the receiver's grid and turn are as before the call.
C27_SimNumPieces ==
    last.op = "sim_num_pieces" =>
        LET accepted == \A m \in Given(last.moves) :
                            simulate_moves(PreHeap, PreEng, <<m>>).status = "ok"
        IN  /\ GridOf(heap, eng) = pre.grid /\ eng.turn = pre.turn
            /\ last.status = "ok" <=> accepted
            /\ accepted =>
                   /\ DOMAIN last.value = Given(last.moves)
                   /\ \A m \in Given(last.moves) :
                          last.value[m] = PiecesAfter(PreHeap, PreEng, m, last.turn)

\* the pieces of a player who is not the one to move, for two moves or more,
\* one of which takes a piece from that player
C27_Witness ==
    /\ last.op = "sim_num_pieces" /\ last.status = "ok"
    /\ Cardinality(DOMAIN last.value) >= 2
    /\ last.turn # pre.turn
    /\ \E m \in DOMAIN last.value :
           last.value[m] < Pieces(pre.grid, eng.side, last.turn)

Occupied(G, side) == Cardinality({c \in Board(side) : At(G, c) # None})

\* the pieces the constructor puts on the board
Seeded(e) == IF e.othello THEN 4 ELSE 0

\* C28: in every state of a game played with members of available_moves from
\* a new engine (players <= side), done is true or the player whose turn it
\* is has a move.
C28_MoveOrDone ==
    phase = "live" =>
        /\ ~done_raises(heap, eng)
        /\ done(heap, eng) \/ available_moves(heap, eng) # {}

\* a move after which a player was skipped, and the player who has the turn
\* now has a move
C28_Witness ==
    /\ phase = "live" /\ last.op = "apply_move" /\ last.value >= 1
    /\ ~done(heap, eng)
    /\ available_moves(heap, eng) # {}

Finished == phase = "live" /\ ~done_raises(heap, eng) /\ done(heap, eng)

\* C29: from a new engine (players <= side), a run that keeps applying
\* members of available_moves while done is false makes at most
\* side * side - k moves (k = 4 with the Othello pieces, 0 otherwise) and is
\* done when it has made that many: every move fills one more cell, so no
\* play goes on for ever; and the loop that skips players in apply_move runs
\* at most players times.
C29_PlayEnds ==
    phase = "live" =>
        /\ Occupied(GridOf(heap, eng), eng.side) = Seeded(eng) + nmoves
        /\ nmoves <= eng.side * eng.side - Seeded(eng)
        /\ nmoves = eng.side * eng.side - Seeded(eng) => Finished
        /\ last.op = "apply_move" => last.value <= eng.players

\* Othello on the 4 x 4 board played until the board is full: 12 moves
C29_Witness ==
    /\ Finished /\ eng.othello
    /\ nmoves = eng.side * eng.side - 4
    /\ Occupied(GridOf(heap, eng), eng.side) = eng.side * eng.side

\* a game that ends before the board is full
C29_EndsEarly ==
    /\ Finished /\ nmoves > 0
    /\ Occupied(GridOf(heap, eng), eng.side) < eng.side * eng.side

\* no cell of the board that held a piece in G is empty in H
NoneRemoved(G, H, side) ==
    \A c \in Board(side) : At(G, c) # None => At(H, c) # None

\* C30: apply_move on an empty cell of the board makes the number of occupied
\* cells one more; neither apply_move nor simulate_moves empties an occupied
\* cell of the engine, and the engine simulate_moves returns holds a piece
\* wherever the receiver does.
C30_PiecesStay ==
    /\ (last.op = "apply_move" /\ OnBoard(eng.side, last.pos)
            /\ At(pre.grid, last.pos) = None) =>
           Occupied(GridOf(heap, eng), eng.side) = Occupied(pre.grid, eng.side) + 1
    /\ last.op \in {"apply_move", "simulate_moves"} =>
           NoneRemoved(pre.grid, GridOf(heap, eng), eng.side)
    /\ (last.op = "simulate_moves" /\ last.status = "ok") =>
           NoneRemoved(pre.grid, GridOf(heap, sim), eng.side)

\* a move that flipped pieces: one more cell is occupied, and more than one
\* cell changed
C30_Witness ==
    /\ last.op = "apply_move" /\ last.status = "ok"
    /\ OnBoard(eng.side, last.pos) /\ At(pre.grid, last.pos) = None
    /\ Occupied(GridOf(heap, eng), eng.side) = Occupied(pre.grid, eng.side) + 1
    /\ Cardinality({c \in Board(eng.side) :
                        At(GridOf(heap, eng), c) # At(pre.grid, c)}) > 1

\* load_game left fewer pieces on the board than there were
C30_LoadReduces ==
    /\ last.op = "load_game" /\ last.status = "ok"
    /\ Occupied(GridOf(heap, eng), eng.side) < Occupied(pre.grid, eng.side)

\* ------------------------------------------------------------ C31 .. C36
\* the player who makes move number k (k >= 1) of a round-robin of P players
RoundRobin(k, P) == ((k - 1) % P) + 1

\* the moves player q has made among the first n of a round-robin of P
Share(n, q, P) == (n \div P) + (IF q <= n % P THEN 1 ELSE 0)

\* a game of a non-Othello engine, players <= side, played from the
\* constructor with available moves, no more than players * players of them
InOpening ==
    /\ phase = "live" /\ ~eng.othello /\ eng.players <= eng.side
    /\ nmoves <= eng.players * eng.players

\* C31: in a non-Othello engine with players <= side played with available
\* moves from the constructor, each of the first players * players moves is
\* made by the next player of the round-robin 1, .., P, 1, .., lands in the
\* center block and changes that one cell only; after them the center block
\* is full and every player owns exactly players pieces.
C31_OpeningRoundRobin ==
    InOpening =>
        LET G == GridOf(heap, eng)
            P == eng.players
        IN  /\ \A q \in 1..P : Pieces(G, eng.side, q) = Share(nmoves, q, P)
            /\ OutsideEmpty(G, eng.side, P)
            /\ nmoves < P * P => eng.turn = RoundRobin(nmoves + 1, P)
            /\ last.op = "apply_move" =>
                   /\ last.status = "ok"
                   /\ pre.turn = RoundRobin(nmoves, P)
                   /\ last.pos \in CenterBlock(eng.side, P)
                   /\ At(pre.grid, last.pos) = None
                   /\ G = SetAt(pre.grid, last.pos, pre.turn)
            /\ nmoves = P * P =>
                   /\ CenterFull(G, eng.side, P)
                   /\ \A q \in 1..P : Pieces(G, eng.side, q) = P

\* three players on the 5 x 5 board have made their nine moves: the center
\* block is full, three pieces each, and cells outside it are left
C31_Witness ==
    /\ InOpening /\ eng.side = 5 /\ eng.players = 3
    /\ nmoves = 9 /\ last.op = "apply_move"
    /\ pre.turn = 3
    /\ CenterFull(GridOf(heap, eng), 5, 3)
    /\ \A q \in 1..3 : Pieces(GridOf(heap, eng), 5, q) = 3

\* C32: in every state of a non-Othello engine reached from the constructor
\* by available moves, the center block is fully occupied or no cell outside
\* it is occupied, so the fallback of Regime A is not met in play.
C32_NoFallbackInPlay ==
    (phase = "live" /\ ~eng.othello) =>
        LET G == GridOf(heap, eng) IN
        /\ CenterFull(G, eng.side, eng.players) \/ OutsideEmpty(G, eng.side, eng.players)
        /\ ~(not_filled(heap, eng) /\ outside_occupied(heap, eng))

\* play has gone on past the opening: the center block is full and a piece
\* lies outside it
C32_Witness ==
    /\ phase = "live" /\ ~eng.othello
    /\ nmoves > eng.players * eng.players
    /\ last.op = "apply_move" /\ last.status = "ok"
    /\ last.pos \notin CenterBlock(eng.side, eng.players)
    /\ CenterFull(GridOf(heap, eng), eng.side, eng.players)
    /\ ~OutsideEmpty(GridOf(heap, eng), eng.side, eng.players)

\* C33: in every state of an Othello engine reached from the constructor
\* through apply_move, whatever position it is given, the 2 x 2 center block
\* is fully occupied, and legal_move is decided by the capture rule: it is
\* true exactly for the empty positions from which a ray captures.
C33_OthelloCenterFull ==
    (phase = "live" /\ eng.othello) =>
        LET G == GridOf(heap, eng) IN
        /\ Cardinality(CenterBlock(eng.side, eng.players)) = 4
        /\ CenterFull(G, eng.side, eng.players)
        /\ ~not_filled(heap, eng)
        /\ \A pos \in Board(eng.side) :
               /\ ~legal_move_raises(heap, eng, pos)
               /\ legal_move(heap, eng, pos)
                      <=> (At(G, pos) = None /\ captures(heap, eng, pos))

\* an Othello engine after a legal move and an apply_move on an occupied
\* cell of the center block
C33_Witness ==
    /\ phase = "live" /\ eng.othello /\ nmoves >= 2
    /\ last.op = "apply_move" /\ last.status = "ok"
    /\ last.pos \in CenterBlock(eng.side, eng.players)
    /\ At(pre.grid, last.pos) # None
    /\ Occupied(GridOf(heap, eng), eng.side) > 4
    /\ CenterFull(GridOf(heap, eng), eng.side, eng.players)

\* apply_move(move) ends the game with player q as the only winner
WinsWith(h, e, move, q) ==
    LET r == apply_move(h, e, move) IN
    /\ r.status = "ok"
    /\ done(r.heap, r.eng)
    /\ outcome(r.heap, r.eng) = <<q>>

Chose == phase = "live" /\ last.op = "best_move" /\ last.status = "ok"

\* C34 as stated: if some available move ends the game with the player to
\* move as the only winner, the move best_move returned is such a move; and a
\* move returned by the return inside the loop makes that player the only
\* winner.
C34_AsClaimed ==
    Chose =>
        /\ (\E move \in available_moves(heap, eng) : WinsWith(heap, eng, move, eng.turn))
               => WinsWith(heap, eng, last.pos, eng.turn)
        /\ last.value => WinsWith(heap, eng, last.pos, eng.turn)

\* C34, what the code does: best_move returns a member of available_moves; a
\* move returned inside the loop ends the game with the player who holds the
\* turn of the simulated engine as the only winner, which is the player
\* after the mover, and the mover when there is one player; a move returned
\* after the loop does not end the game if some available move does not.
C34_WinnerIsSimTurn ==
    Chose =>
        LET moves == available_moves(heap, eng)
            sim_reversi == simulated(heap, eng, last.pos)
            ending == {move \in moves :
                          done(simulated(heap, eng, move).heap,
                               simulated(heap, eng, move).eng)}
        IN  /\ last.pos \in moves
            /\ last.value =>
                   /\ sim_reversi.status = "ok"
                   /\ WinsWith(heap, eng, last.pos, sim_reversi.eng.turn)
                   /\ sim_reversi.eng.turn = next_turn(eng)
            /\ (last.value /\ eng.players = 1) => WinsWith(heap, eng, last.pos, eng.turn)
            /\ (~last.value /\ ending # {} /\ ending # moves) => last.pos \notin ending

\* best_move returned, inside the loop, a move for player 1 that ends the
\* game with player 2 as the only winner
C34_Witness ==
    /\ Chose /\ last.value /\ eng.turn = 1 /\ eng.players = 2
    /\ WinsWith(heap, eng, last.pos, 2)

\* a move that wins the game for the mover is available and best_move
\* returned a move that does not end the game
C34_WinMissed ==
    /\ Chose /\ ~last.value
    /\ \E move \in available_moves(heap, eng) : WinsWith(heap, eng, move, eng.turn)
    /\ ~WinsWith(heap, eng, last.pos, eng.turn)

\* with one player the move returned inside the loop wins the game
C34_OnePlayer ==
    /\ Chose /\ last.value /\ eng.players = 1
    /\ WinsWith(heap, eng, last.pos, eng.turn)

\* an iteration of event_loop has ended with its load_game
Iterated == phase = "live" /\ last.op = "event_loop" /\ last.status = "ok"

\* C35 as stated: after each iteration of event_loop, whatever the batch,
\* the first one included, the grid of the engine is the grid the engine's
\* apply_move calls left: load_game(self.reversi.turn, self.grid) reverts no
\* piece that apply_move placed or flipped.
C35_AsClaimed == Iterated => GridOf(heap, eng) = pre.grid

\* C35, what the code does: after an iteration the engine holds the list of
\* the window, with the turn apply_move left and a piece wherever apply_move
\* left one and nowhere else; the grid is the one apply_move left when the
\* list had been loaded in an earlier iteration.
C35_OnceLoaded ==
    Iterated =>
        /\ eng.grid = caller.list /\ caller.loaded
        /\ eng.turn = pre.turn
        /\ NoneRemoved(pre.grid, GridOf(heap, eng), eng.side)
        /\ NoneRemoved(GridOf(heap, eng), pre.grid, eng.side)
        /\ last.value => GridOf(heap, eng) = pre.grid

\* the first batch held a click on a legal move of Othello: a piece that
\* apply_move flipped to player 1 is player 2's again after load_game
C35_Witness ==
    /\ Iterated /\ ~last.value /\ eng.othello
    /\ \E c \in Board(eng.side) :
           At(pre.grid, c) = 1 /\ At(GridOf(heap, eng), c) = 2

\* a click on a legal move in a later batch: the flips are kept
C35_LaterKept ==
    /\ Iterated /\ last.value /\ eng.othello
    /\ Occupied(pre.grid, eng.side) > 4
    /\ GridOf(heap, eng) = pre.grid
    /\ \E k \in 1..Len(last.moves) : last.moves[k].type = "MOUSEBUTTONDOWN"
    /\ nmoves = Len(last.moves)

\* C36 as stated: ReversiBotMock.simulate_moves leaves the grid and the turn
\* of the game it is called on as they were, and a move applied to the
\* object it returned does not change that game.
C36_AsClaimed ==
    /\ last.op = "simulate_moves" =>
           GridOf(heap, eng) = pre.grid /\ eng.turn = pre.turn
    /\ last.op = "sim.apply_move" =>
           GridOf(heap, eng) = pre.grid /\ eng.turn = pre.turn

\* C36, what the code does: after simulate_moves the turn of the receiver is
\* 2, the object returned holds the receiver's own list, which has the
\* moves in it, and no piece the receiver had is taken off; a move applied
\* to that object shows in the receiver's grid and leaves its turn.
C36_SharedList ==
    /\ last.op = "simulate_moves" =>
           /\ eng.turn = 2
           /\ last.status = "ok" =>
                  /\ sim.grid = eng.grid
                  /\ \A k \in 1..Len(last.moves) :
                         At(GridOf(heap, eng), last.moves[k]) # None
           /\ NoneRemoved(pre.grid, GridOf(heap, eng), eng.side)
    /\ last.op = "sim.apply_move" =>
           /\ sim.grid = eng.grid
           /\ eng.turn = pre.turn
           /\ last.status = "ok" => At(GridOf(heap, eng), last.pos) # None

\* player 1 was to move; simulate_moves with one move returned, and the
\* receiver has the move on its board and player 2 to move
C36_Witness ==
    /\ last.op = "simulate_moves" /\ last.status = "ok" /\ Len(last.moves) = 1
    /\ pre.turn = 1 /\ eng.turn = 2
    /\ At(pre.grid, last.moves[1]) = None
    /\ At(GridOf(heap, eng), last.moves[1]) = 2

\* a move applied to the object returned changed the grid of the receiver
C36_ThroughReturned ==
    /\ last.op = "sim.apply_move" /\ last.status = "ok"
    /\ GridOf(heap, eng) # pre.grid

====
